---- MODULE Spec2Model ----
(***************************************************************************)
(* Mesh topology resolution of the FRITZ!Box telegraf input plugin          *)
(* (plugins/inputs/fritzbox/meshlist.go): the decoded mesh list, its lazily *)
(* built node table, and the two path resolvers getMasterSlavePaths and     *)
(* getClientPaths, each run one collect/lookup step at a time.              *)
(***************************************************************************)
EXTENDS Integers, Sequences, FiniteSets, TLC

(* ---------------------------------------------------------------------- *)
(* Bounds of the explored snapshots and call sequences.                     *)
(* ---------------------------------------------------------------------- *)
MaxNodes == 3

MaxLinks == 3

MaxCalls == 2

MaxGathers == 13

MaxSoapGathers == 2

NodeIdx == 1..MaxNodes

(* ---------------------------------------------------------------------- *)
(* Device names and uuid.Parse.                                             *)
(* A device name is a Go string; NameTable spells every name of the         *)
(* explored snapshots character by character so that the parser below can   *)
(* read it the way uuid.Parse does.                                         *)
(* ---------------------------------------------------------------------- *)
NameTable ==
  << 
     <<"fritz.box",
       <<"f", "r", "i", "t", "z", ".", "b", "o", "x">>>>,
     <<"fritz.repeater",
       <<"f", "r", "i", "t", "z", ".", "r", "e", "p", "e", "a", "t", "e", "r">>>>,
     <<"123e4567-e89b-12d3-a456-426614174000",
       <<"1", "2", "3", "e", "4", "5", "6", "7", "-", "e", "8", "9", "b", "-", "1", "2", "d", "3", "-", "a", "4", "5", "6", "-", "4", "2", "6", "6", "1", "4", "1", "7", "4", "0", "0", "0">>>>,
     <<"urn:uuid:123e4567-e89b-12d3-a456-426614174000",
       <<"u", "r", "n", ":", "u", "u", "i", "d", ":", "1", "2", "3", "e", "4", "5", "6", "7", "-", "e", "8", "9", "b", "-", "1", "2", "d", "3", "-", "a", "4", "5", "6", "-", "4", "2", "6", "6", "1", "4", "1", "7", "4", "0", "0", "0">>>>,
     <<"123e4567e89b12d3a456426614174000",
       <<"1", "2", "3", "e", "4", "5", "6", "7", "e", "8", "9", "b", "1", "2", "d", "3", "a", "4", "5", "6", "4", "2", "6", "6", "1", "4", "1", "7", "4", "0", "0", "0">>>>,
     <<"123e4567-e89b-12d3-a456-42661417400g",
       <<"1", "2", "3", "e", "4", "5", "6", "7", "-", "e", "8", "9", "b", "-", "1", "2", "d", "3", "-", "a", "4", "5", "6", "-", "4", "2", "6", "6", "1", "4", "1", "7", "4", "0", "0", "g">>>>,
     <<"",
       <<>>>>
  >>

DeviceNames == { NameTable[i][1] : i \in 1..Len(NameTable) }

NameChars(name) ==
  LET i == CHOOSE j \in 1..Len(NameTable) : NameTable[j][1] = name
  IN  NameTable[i][2]

HexDigits ==
  {"0","1","2","3","4","5","6","7","8","9",
   "a","b","c","d","e","f","A","B","C","D","E","F"}

LowerCase(c) ==
  CASE c = "U" -> "u" [] c = "R" -> "r" [] c = "N" -> "n"
    [] c = "I" -> "i" [] c = "D" -> "d" [] OTHER -> c

(* The 36 character form xxxxxxxx-xxxx-xxxx-xxxx-xxxxxxxxxxxx. *)
IsCanonicalUuid(cs) ==
  /\ Len(cs) = 36
  /\ \A i \in {9, 14, 19, 24} : cs[i] = "-"
  /\ \A i \in (1..36) \ {9, 14, 19, 24} : cs[i] \in HexDigits

(* uuid.Parse(s) returns a nil error: the string has one of the four        *)
(* accepted lengths (36, 36+9 with the urn:uuid: prefix, 36+2 with braces,  *)
(* 32 hex digits) and decodes.                                              *)
UuidParseOk(cs) ==
  CASE Len(cs) = 36 -> IsCanonicalUuid(cs)
    [] Len(cs) = 45 ->
         /\ [i \in 1..9 |-> LowerCase(cs[i])]
              = <<"u","r","n",":","u","u","i","d",":">>
         /\ IsCanonicalUuid(SubSeq(cs, 10, 45))
    [] Len(cs) = 38 -> IsCanonicalUuid(SubSeq(cs, 2, 37))
    [] Len(cs) = 32 -> \A i \in 1..32 : cs[i] \in HexDigits
    [] OTHER -> FALSE


(* ---------------------------------------------------------------------- *)
(* The decoded mesh list (types meshList, meshListNode,                     *)
(* meshListNodeInterface, meshListNodeLink).                                *)
(* A *meshListNode is the node's index in Nodes, a                          *)
(* *meshListNodeInterface the pair <<node, interface>>, a *meshListNodeLink *)
(* the triple <<node, interface, link>>.                                    *)
(* ---------------------------------------------------------------------- *)
VARIABLES
  Nodes,      \* meshList.Nodes
  nodeTable,  \* meshList.nodeTable: [isNil, entries: uid -> node index]
  heap,       \* the meshPath objects of the running call, by address
  pc,         \* "idle", "ms" (in getMasterSlavePaths), "cl" (in getClientPaths)
  stack,      \* getMasterSlavePaths: the collectMasterSlavePaths calls still to run
  work,       \* getClientPaths: the client links still to be visited
  attach,     \* getClientPaths: the peer interfaces still to be visited
  client,     \* getClientPaths: address of the client path of the current link
  clientTypes,\* getClientPaths: the clientTypes argument of the call
  paths,      \* the result list under construction (addresses)
  calls,      \* the completed calls: [op, clientTypes, paths], the returned
              \* paths read out as parent chains
  goroutines, \* concurrent lookupNode calls: [pc, uid, nodeIndex, result] each
  builds,     \* how many times a node table has been made
  fatal,      \* the runtime has stopped the process (concurrent map access)
  plugin,     \* the FritzBox plugin instance: configuration, queryCounter, deviceInfos
  gathers,    \* the Gather calls made so far, each with what it queried
  lastGather  \* the latest Gather call in full: its network, invocations,
              \* measurements and errors

raceVars == <<goroutines, builds, fatal>>

gatherVars == <<plugin, gathers, lastGather>>

vars == <<Nodes, nodeTable, heap, pc, stack, work, attach, client,
          clientTypes, paths, calls, raceVars, gatherVars>>

(* The nil pointer: no parent path, no node. *)
Nil == 0

GhostUid == "ghost"

NodeUid(i, dup) == IF dup /\ i = MaxNodes /\ i > 1 THEN "n1" ELSE "n" \o ToString(i)

InterfaceUid(i, k) == "n" \o ToString(i) \o "-" \o ToString(k)

InterfaceTypes == <<"WLAN", "LAN">>

(* The kinds of device of the explored snapshots: mesh flag, mesh role and  *)
(* device name.                                                             *)
Kinds ==
  [ master      |-> [IsMeshed |-> TRUE,  MeshRole |-> "master",  DeviceName |-> "fritz.box"],
    slaveNamed  |-> [IsMeshed |-> TRUE,  MeshRole |-> "slave",   DeviceName |-> "fritz.repeater"],
    slaveUuid   |-> [IsMeshed |-> TRUE,  MeshRole |-> "slave",   DeviceName |-> "123e4567-e89b-12d3-a456-426614174000"],
    slaveEmpty  |-> [IsMeshed |-> TRUE,  MeshRole |-> "slave",   DeviceName |-> ""],
    clientNamed |-> [IsMeshed |-> FALSE, MeshRole |-> "unknown", DeviceName |-> "123e4567-e89b-12d3-a456-42661417400g"],
    clientUuid  |-> [IsMeshed |-> FALSE, MeshRole |-> "unknown", DeviceName |-> "urn:uuid:123e4567-e89b-12d3-a456-426614174000"] ]

KindNames == DOMAIN Kinds

NextNode(i) == (i % MaxNodes) + 1

(* The nodes among which the irregular link records are drawn. *)
Corners == {1, 2, MaxNodes}

(* One link record as the snapshot stores it: kept on interface k of node   *)
(* `at`, between <<a, ka>> (side 1) and <<b, kb>> (side 2); b = 0 is a      *)
(* device that is not in the snapshot.                                      *)
LinkSpec(at, k, a, ka, b, kb, state) ==
  [at |-> at, k |-> k, a |-> a, ka |-> ka, b |-> b, kb |-> kb, state |-> state]

(* A link between node s and node p, stored on s; side 1 is the node with   *)
(* the lower index, as both ends of a mirrored link store the same record.  *)
Between(s, k, p, pk, state) ==
  IF s <= p THEN LinkSpec(s, k, s, k, p, pk, state)
            ELSE LinkSpec(s, k, p, pk, s, k, state)

(* The link records a snapshot may hold, in the order in which an interface *)
(* lists them.                                                              *)
Palette ==
     \* connected links between the first interfaces of two corners or of
     \* two neighbours, stored on either end
     SelectSeq(
       [j \in 1..(MaxNodes * (MaxNodes - 1)) |->
          LET s == ((j - 1) \div (MaxNodes - 1)) + 1
              r == ((j - 1) % (MaxNodes - 1)) + 1
              p == IF r >= s THEN r + 1 ELSE r
          IN  Between(s, 1, p, 1, "CONNECTED")],
       LAMBDA sp : {sp.a, sp.b} \subseteq Corners \/ sp.b - sp.a = 1)
     \* connected links between the second interfaces of nodes 1 and 2
  \o << Between(1, 2, 2, 2, "CONNECTED"), Between(2, 2, 1, 2, "CONNECTED") >>
     \* links that are not connected
  \o << Between(1, 1, 2, 1, "DISCONNECTED"), Between(MaxNodes, 1, 1, 1, "DISCONNECTED") >>
     \* links to a device that is absent from the snapshot
  \o << LinkSpec(1, 1, 1, 1, 0, 1, "CONNECTED"),
        LinkSpec(MaxNodes, 1, 0, 1, MaxNodes, 1, "CONNECTED") >>
     \* links from a node to itself, between its two interfaces
  \o << LinkSpec(1, 1, 1, 1, 1, 2, "CONNECTED"),
        LinkSpec(2, 1, 2, 1, 2, 2, "CONNECTED") >>
     \* a link from the second interface of the last node to the first
     \* interface of node 1
  \o << Between(MaxNodes, 2, 1, 1, "CONNECTED") >>
     \* a link stored on a node that is on neither side of it
  \o << LinkSpec(2, 1, 1, 1, MaxNodes, 1, "CONNECTED") >>

PaletteIdx == 1..Len(Palette)

UidOfEnd(i, dup) == IF i = 0 THEN GhostUid ELSE NodeUid(i, dup)

InterfaceUidOfEnd(i, k) == IF i = 0 THEN GhostUid \o "-" \o ToString(k) ELSE InterfaceUid(i, k)

(* The data rates of a link are the same in every copy of its record.       *)
MakeLink(sp, dup) ==
  LET base == 1000 * (sp.a + sp.b) + 10 * (sp.ka + sp.kb) IN
  [ State             |-> sp.state,
    Node1Uid          |-> UidOfEnd(sp.a, dup),
    Node2Uid          |-> UidOfEnd(sp.b, dup),
    NodeInterface1Uid |-> InterfaceUidOfEnd(sp.a, sp.ka),
    NodeInterface2Uid |-> InterfaceUidOfEnd(sp.b, sp.kb),
    MaxDataRateRx     |-> base + 4,
    MaxDataRateTx     |-> base + 3,
    CurDataRateRx     |-> base + 2,
    CurDataRateTx     |-> base + 1 ]

LinksAt(chosen, s, k, dup) ==
  LET idx == SelectSeq([j \in PaletteIdx |-> j],
                       LAMBDA j : j \in chosen /\ Palette[j].at = s /\ Palette[j].k = k)
  IN  [m \in 1..Len(idx) |-> MakeLink(Palette[idx[m]], dup)]

MakeInterface(chosen, s, k, dup) ==
  [ Uid       |-> InterfaceUid(s, k),
    Name      |-> "if" \o ToString(k),
    Type      |-> InterfaceTypes[k],
    NodeLinks |-> LinksAt(chosen, s, k, dup) ]

MakeNode(kinds, chosen, s, dup) ==
  [ Uid            |-> NodeUid(s, dup),
    DeviceName     |-> Kinds[kinds[s]].DeviceName,
    IsMeshed       |-> Kinds[kinds[s]].IsMeshed,
    MeshRole       |-> Kinds[kinds[s]].MeshRole,
    NodeInterfaces |-> [k \in 1..2 |-> MakeInterface(chosen, s, k, dup)] ]

MakeNodes(kinds, chosen, dup) ==
  [s \in NodeIdx |-> MakeNode(kinds, chosen, s, dup)]

(* ---------------------------------------------------------------------- *)
(* meshlist.go: nodes, interfaces, links.                                   *)
(* ---------------------------------------------------------------------- *)
NodeAt(n) == Nodes[n]

InterfaceAt(i) == Nodes[i[1]].NodeInterfaces[i[2]]

LinkAt(l) == Nodes[l[1]].NodeInterfaces[l[2]].NodeLinks[l[3]]

(* hasValidDeviceName without the uuid.Parse test. *)
hasNonEmptyDeviceName(node) == node.DeviceName # ""

hasValidDeviceName(node) ==
  IF node.DeviceName = "" THEN FALSE
  ELSE ~UuidParseOk(NameChars(node.DeviceName))

isMaster(node) == node.IsMeshed /\ node.MeshRole = "master"

isSlave(node) == node.IsMeshed /\ node.MeshRole = "slave"

(* isConnected without the comparison of the state. *)
isConnectedInAnyState(link) == link.State \in {"CONNECTED", "DISCONNECTED"}

isConnected(link) == link.State = "CONNECTED"

isConnectedTo(link, nodeInterface) ==
  /\ isConnected(link)
  /\ \/ link.NodeInterface1Uid = nodeInterface.Uid
     \/ link.NodeInterface2Uid = nodeInterface.Uid

(* A put that keeps an entry the table already holds. *)
MapPutIfAbsent(m, key, val) ==
  [x \in (DOMAIN m) \cup {key} |-> IF x \in DOMAIN m THEN m[x] ELSE val]

(* nodeTable[node.Uid] = &meshList.Nodes[nodeIndex] *)
MapPut(m, key, val) ==
  [x \in (DOMAIN m) \cup {key} |-> IF x = key THEN val ELSE m[x]]

RECURSIVE BuildFrom(_, _, _)
BuildFrom(nodes, nodeIndex, table) ==
  IF nodeIndex > Len(nodes) THEN table
  ELSE BuildFrom(nodes, nodeIndex + 1, MapPut(table, nodes[nodeIndex].Uid, nodeIndex))

BuildNodeTable(nodes) == BuildFrom(nodes, 1, <<>>)

(* The node table lookupNode leaves behind: built on the first call. *)
NodeTableAfterLookup(nt) ==
  IF nt.isNil THEN [isNil |-> FALSE, entries |-> BuildNodeTable(Nodes)] ELSE nt

(* A lookupNode whose building call answers from the node list, first match *)
(* first, and only later calls from the table.                              *)
lookupNodeScanOnBuild(nt, uid) ==
  IF nt.isNil
  THEN IF \E n \in 1..Len(Nodes) : Nodes[n].Uid = uid
       THEN CHOOSE n \in 1..Len(Nodes) :
              /\ Nodes[n].Uid = uid
              /\ \A m \in 1..(n - 1) : Nodes[m].Uid # uid
       ELSE Nil
  ELSE IF uid \in DOMAIN nt.entries THEN nt.entries[uid] ELSE Nil

(* A lookupNode that answers a uid the table does not hold with the first  *)
(* node instead of nil.                                                     *)
lookupNodeDefaulting(nt, uid) ==
  LET t == NodeTableAfterLookup(nt).entries
  IN  IF uid \in DOMAIN t THEN t[uid] ELSE 1

(* The pointer lookupNode returns. *)
lookupNode(nt, uid) ==
  LET t == NodeTableAfterLookup(nt).entries
  IN  IF uid \in DOMAIN t THEN t[uid] ELSE Nil

(* ---------------------------------------------------------------------- *)
(* meshPath: h is the heap, p the address of a path in it.                  *)
(* ---------------------------------------------------------------------- *)
MeshPath(parent, node, nodeInterface, nodeLink) ==
  [parent |-> parent, node |-> node, nodeInterface |-> nodeInterface,
   nodeLink |-> nodeLink]

RECURSIVE getRoot(_, _)
getRoot(h, p) == IF h[p].parent = Nil THEN p ELSE getRoot(h, h[p].parent)

(* getPeerNodeUid without the comparison of the path's own node. *)
getPeerNodeUidSide1(path) == LinkAt(path.nodeLink).Node1Uid

getPeerNodeUid(path) ==
  IF NodeAt(path.node).Uid = LinkAt(path.nodeLink).Node1Uid
  THEN LinkAt(path.nodeLink).Node2Uid
  ELSE LinkAt(path.nodeLink).Node1Uid

(* getDataRates without the orientation: the rates as stored. *)
getDataRatesAsStored(path) ==
  LET link == LinkAt(path.nodeLink) IN
  <<link.MaxDataRateRx, link.MaxDataRateTx, link.CurDataRateRx, link.CurDataRateTx>>

getDataRates(path) ==
  LET link == LinkAt(path.nodeLink) IN
  IF NodeAt(path.node).Uid = link.Node1Uid
  THEN <<link.MaxDataRateRx, link.MaxDataRateTx, link.CurDataRateRx, link.CurDataRateTx>>
  ELSE <<link.MaxDataRateTx, link.MaxDataRateRx, link.CurDataRateTx, link.CurDataRateRx>>

(* contains with the root test first: the walk's first step is never compared. *)
RECURSIVE containsBelowRoot(_, _, _)
containsBelowRoot(h, p, node) ==
  IF h[p].parent = Nil THEN FALSE
  ELSE IF NodeAt(h[p].node).Uid = NodeAt(node).Uid THEN TRUE
  ELSE containsBelowRoot(h, h[p].parent, node)

RECURSIVE contains(_, _, _)
contains(h, p, node) ==
  IF NodeAt(h[p].node).Uid = NodeAt(node).Uid THEN TRUE
  ELSE IF h[p].parent = Nil THEN FALSE
  ELSE contains(h, h[p].parent, node)

(* The steps of path p, from p up to its root. *)
RECURSIVE Chain(_, _)
Chain(h, p) ==
  <<[node |-> h[p].node, nodeInterface |-> h[p].nodeInterface, nodeLink |-> h[p].nodeLink]>>
  \o (IF h[p].parent = Nil THEN <<>> ELSE Chain(h, h[p].parent))

(* What the caller reads from a returned list: each entry's parent chain. *)
Returned(h, ps) == [m \in 1..Len(ps) |-> Chain(h, ps[m])]

(* ---------------------------------------------------------------------- *)
(* Loops over a node's interfaces and their links, in order.                *)
(* ---------------------------------------------------------------------- *)
RECURSIVE Concat(_)
Concat(ss) == IF ss = <<>> THEN <<>> ELSE Head(ss) \o Concat(Tail(ss))

(* The link pointers of interface <<n, k>>, in order. *)
LinksOfInterface(n, k) ==
  [l \in 1..Len(Nodes[n].NodeInterfaces[k].NodeLinks) |-> <<n, k, l>>]

(* The link pointers of node n, interface by interface. *)
LinksOfNode(n) ==
  Concat([k \in 1..Len(Nodes[n].NodeInterfaces) |-> LinksOfInterface(n, k)])

ConnectedLinks(links) == SelectSeq(links, LAMBDA l : isConnected(LinkAt(l)))

(* The isConnected test in the place of isConnectedTo. *)
ConnectedLinksAnywhere(links, nodeInterface) == ConnectedLinks(links)

ConnectedLinksTo(links, nodeInterface) ==
  SelectSeq(links, LAMBDA l : isConnectedTo(LinkAt(l), InterfaceAt(nodeInterface)))

(* ---------------------------------------------------------------------- *)
(* The explored snapshots.                                                  *)
(* ---------------------------------------------------------------------- *)
RECURSIVE SubsetsUpTo(_, _)
SubsetsUpTo(S, n) ==
  IF n = 0 THEN {{}}
  ELSE LET smaller == SubsetsUpTo(S, n - 1)
       IN  smaller \cup { T \cup {x} : T \in smaller, x \in S }

(* A connected link between the first interfaces of two different nodes of  *)
(* the snapshot, stored on one of the two.                                  *)
IsMeshEdge(sp) ==
  /\ sp.state = "CONNECTED" /\ sp.a # 0 /\ sp.b # 0 /\ sp.a # sp.b
  /\ sp.ka = 1 /\ sp.kb = 1 /\ sp.at \in {sp.a, sp.b}

MeshEdges == { j \in PaletteIdx : IsMeshEdge(Palette[j]) }

PeerOf(sp) == IF sp.at = sp.a THEN sp.b ELSE sp.a

(* The link records among the corners. *)
CornerLinks ==
  { j \in PaletteIdx :
      {Palette[j].at, Palette[j].a, Palette[j].b} \subseteq Corners \cup {0} }

(* Every pair of corners linked and the link stored on both ends; a chain;  *)
(* a star around node 1; a ring whose links are stored on one end only.     *)
Topologies ==
  { MeshEdges \cap CornerLinks,
    { j \in MeshEdges : Palette[j].b - Palette[j].a = 1 },
    { j \in MeshEdges \cap CornerLinks : Palette[j].a = 1 },
    { j \in MeshEdges : PeerOf(Palette[j]) = NextNode(Palette[j].at) } }

(* The first node, the nodes in the middle, the last node. *)
KindRow(first, middle, last) ==
  [i \in NodeIdx |-> IF i = 1 THEN first ELSE IF i = MaxNodes THEN last ELSE middle]

KindRows ==
  { KindRow("master", "slaveUuid", "slaveNamed"),
    KindRow("master", "clientNamed", "slaveNamed"),
    KindRow("clientNamed", "master", "clientNamed") }

(* The nodes with node n left without interfaces. *)
WithoutInterfaces(nodes, n) ==
  [nodes EXCEPT ![n] = [@ EXCEPT !.NodeInterfaces = <<>>]]

(* The snapshots explored: every row of kinds over the four topologies,     *)
(* with and without a duplicate uid; for some rows of kinds, every choice   *)
(* of at most MaxLinks link records among the corners; and, for these rows  *)
(* over the four topologies, one node without interfaces.                   *)
IsSnapshot(nodes) ==
  \/ \E first, middle, last \in KindNames, chosen \in Topologies, dup \in BOOLEAN :
       nodes = MakeNodes(KindRow(first, middle, last), chosen, dup)
  \/ \E kinds \in KindRows, chosen \in SubsetsUpTo(CornerLinks, MaxLinks) :
       nodes = MakeNodes(kinds, chosen, FALSE)
  \/ \E chosen \in SubsetsUpTo(CornerLinks, MaxLinks - 1) :
       nodes = MakeNodes(KindRow("master", "slaveNamed", "clientNamed"), chosen, TRUE)
  \/ \E kinds \in KindRows, chosen \in Topologies, n \in NodeIdx :
       nodes = WithoutInterfaces(MakeNodes(kinds, chosen, FALSE), n)

(* The clientTypes arguments of the explored getClientPaths calls. *)
ClientTypeFilters == { <<>>, <<"LAN">> }

(* The goroutines that call lookupNode on the same mesh list. *)
Goroutines == {1, 2}

NotCalling == [pc |-> "idle", uid |-> "", nodeIndex |-> 0, result |-> Nil]

NoRace ==
  /\ goroutines = [g \in Goroutines |-> NotCalling]
  /\ builds = 0
  /\ fatal = FALSE

(* NewFritzBox(): the plugin with its default configuration. *)
NewFritzBox ==
  [ Devices        |-> << <<"fritz.box", "", "">> >>,
    GetDeviceInfo  |-> TRUE,
    GetWLANInfo    |-> TRUE,
    GetWANInfo     |-> TRUE,
    GetDSLInfo     |-> TRUE,
    GetPPPInfo     |-> TRUE,
    GetMeshInfo    |-> <<>>,
    FullQueryCycle |-> 6,
    deviceInfos    |-> <<>>,
    queryCounter   |-> 0,
    GetMeshClients |-> FALSE ]

(* No network: what a run is given before any device has been contacted. *)
NoNet == [reachable |-> {}, policy |-> "open", nonce |-> ""]

(* Nothing done: the account of a run that has not done anything. *)
NothingDone ==
  [queried |-> <<>>, invocations |-> <<>>, emitted |-> <<>>, errors |-> <<>>,
   serviceErrors |-> <<>>, fetched |-> <<>>]

NoLast == [net |-> NoNet, err |-> FALSE, before |-> NewFritzBox, done |-> NothingDone]

NoGather ==
  /\ plugin = NewFritzBox
  /\ gathers = <<>>
  /\ lastGather = NoLast

Init ==
  /\ IsSnapshot(Nodes)
  /\ NoRace
  /\ NoGather
  /\ nodeTable = [isNil |-> TRUE, entries |-> <<>>]
  /\ heap = <<>>
  /\ pc = "idle"
  /\ stack = <<>>
  /\ work = <<>>
  /\ attach = <<>>
  /\ client = Nil
  /\ clientTypes = <<>>
  /\ paths = <<>>
  /\ calls = <<>>

(* ---------------------------------------------------------------------- *)
(* getMasterSlavePaths.                                                     *)
(* ---------------------------------------------------------------------- *)
(* Paths that keep the node of the path they continue (the path being      *)
(* collected, on top of the stack) instead of the node that holds the link. *)
PathsOverParentNode(parent, links) ==
  [m \in 1..Len(links) |->
     MeshPath(parent,
              IF parent = Nil \/ stack = <<>> THEN links[m][1] ELSE Head(stack).node,
              <<links[m][1], links[m][2]>>, links[m])]

PathsOver(parent, links) ==
  [m \in 1..Len(links) |->
     MeshPath(parent, links[m][1], <<links[m][1], links[m][2]>>, links[m])]

(* The seed path of every connected link of every master node, in order. *)
MasterSeeds ==
  Concat([n \in 1..Len(Nodes) |->
            IF isMaster(Nodes[n])
            THEN PathsOver(Nil, ConnectedLinks(LinksOfNode(n)))
            ELSE <<>>])

(* getMasterSlavePaths is entered: paths := make([]*meshPath, 0). *)
MSCall ==
  /\ pc = "idle"
  /\ Len(calls) < MaxCalls
  /\ pc' = "ms"
  /\ stack' = MasterSeeds
  /\ paths' = <<>>
  /\ heap' = <<>>
  /\ UNCHANGED <<gatherVars, raceVars, Nodes, nodeTable, work, attach, client, clientTypes, calls>>

(* A walk that records every slave it reaches, named or not. *)
CollectAppendedAnySlave(h, p, nt) ==
  LET path     == h[p]
      peerNode == lookupNode(nt, getPeerNodeUid(path))
  IN  IF peerNode # Nil /\ ~contains(h, p, peerNode) /\ isSlave(NodeAt(peerNode))
      THEN PathsOver(p, ConnectedLinksTo(LinksOfNode(peerNode), path.nodeInterface))
      ELSE <<>>

(* What one collectMasterSlavePaths(paths, path) call does before it        *)
(* recurses: the paths it appends and the paths it recurses into.           *)
(* h holds path at address p.                                               *)
CollectAppended(h, p, nt) ==
  LET path     == h[p]
      peerNode == lookupNode(nt, getPeerNodeUid(path))
  IN  IF peerNode # Nil /\ ~contains(h, p, peerNode)
         /\ isSlave(NodeAt(peerNode)) /\ hasValidDeviceName(NodeAt(peerNode))
      THEN PathsOver(p, ConnectedLinksTo(LinksOfNode(peerNode), path.nodeInterface))
      ELSE <<>>

(* A walk that goes on only through mesh members. *)
CollectRecursedMeshOnly(h, p, nt) ==
  LET path     == h[p]
      peerNode == lookupNode(nt, getPeerNodeUid(path))
  IN  IF peerNode # Nil /\ ~contains(h, p, peerNode)
         /\ NodeAt(peerNode).IsMeshed
         /\ ~(isSlave(NodeAt(peerNode)) /\ hasValidDeviceName(NodeAt(peerNode)))
      THEN PathsOver(p, ConnectedLinks(LinksOfNode(peerNode)))
      ELSE <<>>

CollectRecursed(h, p, nt) ==
  LET path     == h[p]
      peerNode == lookupNode(nt, getPeerNodeUid(path))
  IN  IF peerNode # Nil /\ ~contains(h, p, peerNode)
         /\ ~(isSlave(NodeAt(peerNode)) /\ hasValidDeviceName(NodeAt(peerNode)))
      THEN PathsOver(p, ConnectedLinks(LinksOfNode(peerNode)))
      ELSE <<>>

(* A walk that puts the paths to recurse into behind the calls still to    *)
(* run: breadth first.                                                      *)
MSCollectBreadthFirst ==
  /\ pc = "ms"
  /\ stack # <<>>
  /\ LET h1       == Append(heap, Head(stack))
         p        == Len(h1)
         appended == CollectAppended(h1, p, nodeTable)
         recursed == CollectRecursed(h1, p, nodeTable)
     IN  /\ nodeTable' = NodeTableAfterLookup(nodeTable)
         /\ heap' = h1 \o appended
         /\ paths' = paths \o [m \in 1..Len(appended) |-> Len(h1) + m]
         /\ stack' = Tail(stack) \o recursed
  /\ UNCHANGED <<gatherVars, raceVars, Nodes, pc, work, attach, client, clientTypes, calls>>

(* One collectMasterSlavePaths call: the path on top of the stack is        *)
(* constructed and collected.                                               *)
MSCollect ==
  /\ pc = "ms"
  /\ stack # <<>>
  /\ LET h1       == Append(heap, Head(stack))
         p        == Len(h1)
         appended == CollectAppended(h1, p, nodeTable)
         recursed == CollectRecursed(h1, p, nodeTable)
     IN  /\ nodeTable' = NodeTableAfterLookup(nodeTable)
         /\ heap' = h1 \o appended
         /\ paths' = paths \o [m \in 1..Len(appended) |-> Len(h1) + m]
         /\ stack' = recursed \o Tail(stack)
  /\ UNCHANGED <<gatherVars, raceVars, Nodes, pc, work, attach, client, clientTypes, calls>>

(* getMasterSlavePaths returns paths. *)
MSReturn ==
  /\ pc = "ms"
  /\ stack = <<>>
  /\ pc' = "idle"
  /\ calls' = Append(calls, [op |-> "ms", clientTypes |-> <<>>,
                              paths |-> Returned(heap, paths)])
  /\ paths' = <<>>
  /\ UNCHANGED <<gatherVars, raceVars, Nodes, nodeTable, heap, stack, work, attach, client, clientTypes>>

(* ---------------------------------------------------------------------- *)
(* getClientPaths.                                                          *)
(* ---------------------------------------------------------------------- *)
(* An includeClient that ignores the clientTypes argument. *)
includeClientAlways(types, clientInterface) == Len(types) >= 0

includeClient(types, clientInterface) ==
  \/ Len(types) = 0
  \/ \E t \in 1..Len(types) : clientInterface.Type = types[t]

(* The connected links of the included interfaces of the client nodes. *)
ClientLinks(types) ==
  Concat([n \in 1..Len(Nodes) |->
    IF ~Nodes[n].IsMeshed /\ hasValidDeviceName(Nodes[n])
    THEN Concat([k \in 1..Len(Nodes[n].NodeInterfaces) |->
           IF includeClient(types, Nodes[n].NodeInterfaces[k])
           THEN ConnectedLinks(LinksOfInterface(n, k))
           ELSE <<>>])
    ELSE <<>>])

(* getClientPaths(clientTypes) is entered. *)
CLCall(types) ==
  /\ pc = "idle"
  /\ Len(calls) < MaxCalls
  /\ pc' = "cl"
  /\ clientTypes' = types
  /\ work' = ClientLinks(types)
  /\ attach' = <<>>
  /\ client' = Nil
  /\ paths' = <<>>
  /\ heap' = <<>>
  /\ UNCHANGED <<gatherVars, raceVars, Nodes, nodeTable, stack, calls>>

(* The interfaces of the peer node that the client link is connected to. *)
PeerInterfaces(peerNode, clientLink) ==
  IF peerNode = Nil THEN <<>>
  ELSE LET ifs == Nodes[peerNode].NodeInterfaces
           idx == SelectSeq([k \in 1..Len(ifs) |-> k],
                            LAMBDA k : isConnectedTo(clientLink, ifs[k]))
       IN  [m \in 1..Len(idx) |-> <<peerNode, idx[m]>>]

(* A CLVisit without the test for a nil peer node: ranging over the         *)
(* interfaces of a nil node stops the call with a panic.                    *)
CLVisitNoNilTest ==
  /\ pc = "cl"
  /\ attach = <<>>
  /\ work # <<>>
  /\ LET l        == Head(work)
         c        == MeshPath(Nil, l[1], <<l[1], l[2]>>, l)
         peerNode == lookupNode(nodeTable, getPeerNodeUid(c))
     IN  /\ heap' = Append(heap, c)
         /\ client' = Len(heap) + 1
         /\ nodeTable' = NodeTableAfterLookup(nodeTable)
         /\ attach' = PeerInterfaces(peerNode, LinkAt(l))
         /\ pc' = IF peerNode = Nil THEN "panic" ELSE pc
  /\ work' = Tail(work)
  /\ UNCHANGED <<gatherVars, raceVars, Nodes, stack, clientTypes, paths, calls>>

(* The next connected client link: the client path is constructed and its   *)
(* peer node looked up.                                                     *)
CLVisit ==
  /\ pc = "cl"
  /\ attach = <<>>
  /\ work # <<>>
  /\ LET l        == Head(work)
         c        == MeshPath(Nil, l[1], <<l[1], l[2]>>, l)
         peerNode == lookupNode(nodeTable, getPeerNodeUid(c))
     IN  /\ heap' = Append(heap, c)
         /\ client' = Len(heap) + 1
         /\ nodeTable' = NodeTableAfterLookup(nodeTable)
         /\ attach' = PeerInterfaces(peerNode, LinkAt(l))
  /\ work' = Tail(work)
  /\ UNCHANGED <<gatherVars, raceVars, Nodes, pc, stack, clientTypes, paths, calls>>

(* A peer path that keeps the client's previous parent as its own parent. *)
PeerPathChained(h, c, i) == MeshPath(h[c].parent, i[1], i, h[c].nodeLink)

(* peer := &meshPath{node: peerNode, nodeInterface: ..., nodeLink: client.nodeLink} *)
PeerPath(h, c, i) == MeshPath(Nil, i[1], i, h[c].nodeLink)

(* One matching peer interface: the peer path is constructed, becomes the   *)
(* client path's parent, and the client path is appended.                   *)
CLAttach ==
  /\ pc = "cl"
  /\ attach # <<>>
  /\ LET i    == Head(attach)
         peer == PeerPath(heap, client, i)
         h1   == Append(heap, peer)
     IN  heap' = [h1 EXCEPT ![client].parent = Len(h1)]
  /\ paths' = Append(paths, client)
  /\ attach' = Tail(attach)
  /\ UNCHANGED <<gatherVars, raceVars, Nodes, nodeTable, pc, stack, work, client, clientTypes, calls>>

(* getClientPaths returns paths. *)
CLReturn ==
  /\ pc = "cl"
  /\ work = <<>>
  /\ attach = <<>>
  /\ pc' = "idle"
  /\ calls' = Append(calls, [op |-> "cl", clientTypes |-> clientTypes,
                              paths |-> Returned(heap, paths)])
  /\ paths' = <<>>
  /\ client' = Nil
  /\ clientTypes' = <<>>
  /\ UNCHANGED <<gatherVars, raceVars, Nodes, nodeTable, heap, stack, work, attach>>

Next ==
  \/ MSCall
  \/ MSCollect
  \/ MSReturn
  \/ \E types \in ClientTypeFilters : CLCall(types)
  \/ CLVisit
  \/ CLAttach
  \/ CLReturn

Spec == Init /\ [][Next]_vars

(* Fairness: a call that has been entered keeps running until it returns. *)
RunningCallSteps == MSCollect \/ MSReturn \/ CLVisit \/ CLAttach \/ CLReturn

LiveSpec == Spec /\ WF_vars(RunningCallSteps)

UidsOf(nodes) == { nodes[n].Uid : n \in 1..Len(nodes) }

(* ---------------------------------------------------------------------- *)
(* lookupNode called from two goroutines on one mesh list, one statement at *)
(* a time. Every statement reads the field meshList.nodeTable anew.         *)
(* ---------------------------------------------------------------------- *)
RaceInit ==
  /\ \E kinds \in KindRows, dup \in BOOLEAN : Nodes = MakeNodes(kinds, {}, dup)
  /\ nodeTable = [isNil |-> TRUE, entries |-> <<>>]
  /\ heap = <<>>
  /\ pc = "idle"
  /\ stack = <<>>
  /\ work = <<>>
  /\ attach = <<>>
  /\ client = Nil
  /\ clientTypes = <<>>
  /\ paths = <<>>
  /\ calls = <<>>
  /\ NoRace
  /\ NoGather

seqVars == <<Nodes, heap, pc, stack, work, attach, client, clientTypes, paths, calls>>

(* lookupNode(uid) is entered by goroutine g. *)
LNCall(g, uid) ==
  /\ ~fatal
  /\ goroutines[g].pc = "idle"
  /\ goroutines' = [goroutines EXCEPT ![g] = [@ EXCEPT !.pc = "test", !.uid = uid]]
  /\ UNCHANGED <<gatherVars, seqVars, nodeTable, builds, fatal>>

(* if meshList.nodeTable == nil *)
LNTest(g) ==
  /\ ~fatal
  /\ goroutines[g].pc = "test"
  /\ goroutines' = [goroutines EXCEPT ![g].pc = IF nodeTable.isNil THEN "make" ELSE "index"]
  /\ UNCHANGED <<gatherVars, seqVars, nodeTable, builds, fatal>>

(* meshList.nodeTable = make(map[string]*meshListNode, 0) *)
LNMake(g) ==
  /\ ~fatal
  /\ goroutines[g].pc = "make"
  /\ nodeTable' = [isNil |-> FALSE, entries |-> <<>>]
  /\ builds' = builds + 1
  /\ goroutines' = [goroutines EXCEPT ![g] = [@ EXCEPT !.pc = "range", !.nodeIndex = 1]]
  /\ UNCHANGED <<gatherVars, seqVars, fatal>>

(* One iteration of the range loop, or its end. *)
LNAssign(g) ==
  /\ ~fatal
  /\ goroutines[g].pc = "range"
  /\ LET nodeIndex == goroutines[g].nodeIndex IN
     IF nodeIndex > Len(Nodes)
     THEN /\ goroutines' = [goroutines EXCEPT ![g].pc = "index"]
          /\ UNCHANGED nodeTable
     ELSE /\ nodeTable' = [nodeTable EXCEPT
                             !.entries = MapPut(@, Nodes[nodeIndex].Uid, nodeIndex)]
          /\ goroutines' = [goroutines EXCEPT ![g].nodeIndex = nodeIndex + 1]
  /\ UNCHANGED <<gatherVars, seqVars, builds, fatal>>

(* return meshList.nodeTable[uid] *)
LNIndex(g) ==
  /\ ~fatal
  /\ goroutines[g].pc = "index"
  /\ LET uid == goroutines[g].uid IN
     goroutines' = [goroutines EXCEPT ![g] =
       [@ EXCEPT !.pc = "done",
                 !.result = IF uid \in DOMAIN nodeTable.entries
                            THEN nodeTable.entries[uid] ELSE Nil]]
  /\ UNCHANGED <<gatherVars, seqVars, nodeTable, builds, fatal>>

(* The runtime finds goroutine g reading or writing the map while another   *)
(* goroutine writes it, and stops the process; it may also miss it.         *)
LNFatal(g) ==
  /\ ~fatal
  /\ goroutines[g].pc \in {"range", "index"}
  /\ \E h \in Goroutines \ {g} :
       goroutines[h].pc = "range" /\ goroutines[h].nodeIndex <= Len(Nodes)
  /\ fatal' = TRUE
  /\ UNCHANGED <<gatherVars, seqVars, nodeTable, goroutines, builds>>

RaceNext ==
  \E g \in Goroutines :
    \/ \E uid \in UidsOf(Nodes) \cup {GhostUid} : LNCall(g, uid)
    \/ LNTest(g)
    \/ LNMake(g)
    \/ LNAssign(g)
    \/ LNIndex(g)
    \/ LNFatal(g)

RaceSpec == RaceInit /\ [][RaceNext]_vars

(* ---------------------------------------------------------------------- *)
(* fritzbox.go: Gather and the query cycle.                                 *)
(* ---------------------------------------------------------------------- *)
(* The raw base urls of the explored configurations with what url.Parse     *)
(* makes of them: whether it succeeds, and the Hostname() of the result.    *)
UrlTable ==
  [ raw |-> {"http://fritz.box:49000", "http://fritz.repeater:49000",
             "fritz.box", "http://fritz.box:port"},
    parseOk  |-> [r \in {"http://fritz.box:49000", "http://fritz.repeater:49000",
                          "fritz.box", "http://fritz.box:port"}
                   |-> r # "http://fritz.box:port"],
    hostname |-> [r \in {"http://fritz.box:49000", "http://fritz.repeater:49000",
                          "fritz.box", "http://fritz.box:port"}
                   |-> CASE r = "http://fritz.box:49000" -> "fritz.box"
                         [] r = "http://fritz.repeater:49000" -> "fritz.repeater"
                         [] OTHER -> ""] ]

Hostnames == {"fritz.box", "fritz.repeater"}

(* A service type is its text up to and including the last colon, and the   *)
(* version behind it.                                                       *)
ServiceType(base, version) == <<"urn:dslforum-org:service:" \o base \o ":", version>>

HasPrefix(serviceType, prefix) == serviceType[1] = prefix

(* The service description (tr64desc.xml) a host answers with: the root     *)
(* device's services and its embedded devices.                              *)
Tr64Desc(hostname) ==
  IF hostname = "fritz.box"
  THEN [ Services |-> << ServiceType("DeviceInfo", "1"),
                         ServiceType("LANConfigSecurity", "1"),
                         ServiceType("WLANConfiguration", "1"),
                         ServiceType("WLANConfiguration", "2"),
                         ServiceType("Hosts", "1") >>,
         Devices  |-> << [ Services |-> << ServiceType("WANCommonInterfaceConfig", "1"),
                                           ServiceType("WANDSLInterfaceConfig", "1") >>,
                           Devices  |-> << [ Services |-> << ServiceType("WANPPPConnection", "1") >>,
                                             Devices  |-> <<>> ] >> ] >> ]
  ELSE [ Services |-> << ServiceType("DeviceInfo", "1"),
                         ServiceType("WLANConfiguration", "1"),
                         ServiceType("Hosts", "1") >>,
         Devices  |-> << [ Services |-> << ServiceType("WANCommonInterfaceConfig", "1") >>,
                           Devices  |-> <<>> ] >> ]

(* The control url the description gives for a service, as url.Parse reads  *)
(* it: the repeater's description carries one with a broken percent escape. *)
ControlURL(hostname, service) ==
  IF hostname = "fritz.repeater" /\ service = ServiceType("WLANConfiguration", "1")
  THEN [text |-> "/upnp/control/wlanconfig%zz", parseOk |-> FALSE]
  ELSE [text |-> "/upnp/control/" \o service[1] \o service[2], parseOk |-> TRUE]

(* The public IGD service processWANCommonInterfaceConfigService queries    *)
(* in place of the one found.                                               *)
igdWANCommonInterfaceConfigService ==
  <<"urn:schemas-upnp-org:service:WANCommonInterfaceConfig:", "1">>

(* ---------------------------------------------------------------------- *)
(* The devices on the network, as the plugin's http client sees them.       *)
(* ---------------------------------------------------------------------- *)
(* How a device answers a SOAP POST in one Gather run:                      *)
(*   open      200 to every request                                         *)
(*   digest    401 with one Digest challenge to a request without an        *)
(*             Authorization header, 200 to any request with one            *)
(*   fresh     200 to a request whose Authorization carries the nonce of    *)
(*             this run, 401 with one Digest challenge otherwise            *)
(*   spaced    as fresh, the challenge written with a blank after each      *)
(*             comma                                                        *)
(*   reject    401 with one Digest challenge to every request               *)
(*   bare401   401 without a WWW-Authenticate header to every request       *)
(*   twice401  401 with two WWW-Authenticate headers to a request without   *)
(*             an Authorization header, 200 to any request with one         *)
(*   hangup    401 with one Digest challenge to a request without an        *)
(*             Authorization header, no answer to a request with one        *)
(*   garbage   200 with a body that is not XML                              *)
(*   error500  500 to every request                                         *)
Policies ==
  {"open", "digest", "fresh", "spaced", "reject", "bare401", "twice401", "hangup",
   "garbage", "error500"}

Nonces == {"30492F0B4025DFF7", "8A11C2D43E5F6071"}

(* The empty string where an authorization is expected. *)
NoAuthentication == <<>>

(* The empty string where a service type is expected. *)
NoServiceType == <<"", "">>

(* A WWW-Authenticate header value, cut at its commas and each part cut at  *)
(* its equal signs, the way strings.Split cuts it; quoted values are shown  *)
(* with their quotes removed.                                               *)
DigestChallenge(nonce, blank) ==
  << <<"Digest realm", "HTTPS Access">>,
     <<blank \o "nonce", nonce>>,
     <<blank \o "algorithm", "MD5">>,
     <<blank \o "qop", "auth">> >>

(* The zero value of the structs the responses are unmarshalled into. *)
ZeroOut == [Status |-> "", MeshListPath |-> ""]

(* The answers of an http round trip: a transport error, or a response      *)
(* with its status code, its WWW-Authenticate headers and its body.         *)
TransportError ==
  [err |-> TRUE, StatusCode |-> 0, WwwAuthenticate |-> <<>>, body |-> "", out |-> ZeroOut]

Response(status, headers, body, out) ==
  [err |-> FALSE, StatusCode |-> status, WwwAuthenticate |-> headers, body |-> body, out |-> out]

(* What a device reports for an action of a service. *)
DeviceAnswer(hostname, service, action) ==
  [ Status |->
      IF action = "GetInfo" /\ HasPrefix(service, "urn:dslforum-org:service:WLANConfiguration:")
      THEN (IF hostname = "fritz.box" /\ service[2] = "1" THEN "Disabled" ELSE "Up")
      ELSE IF action = "GetInfo" /\ HasPrefix(service, "urn:dslforum-org:service:WANDSLInterfaceConfig:")
      THEN "Up"
      ELSE IF action = "GetInfo" /\ HasPrefix(service, "urn:dslforum-org:service:WANPPPConnection:")
      THEN "Connected"
      ELSE IF action = "GetCommonLinkProperties"
      THEN (IF hostname = "fritz.box" THEN "Up" ELSE "Down")
      ELSE "",
    MeshListPath |->
      IF action = "X_AVM-DE_GetMeshListPath" THEN "/meshlist.lua?sid=0" ELSE "" ]

(* The device's answer to one POST. net is the network of the run: the      *)
(* hosts that answer at all, how they answer, and the nonce they hand out.  *)
ServerAnswer(net, hostname, service, action, authentication) ==
  LET ok == Response(200, <<>>, "xml", DeviceAnswer(hostname, service, action))
      challenge(n, blank) ==
        Response(401, [i \in 1..n |-> DigestChallenge(net.nonce, blank)], "", ZeroOut)
  IN  IF hostname \notin net.reachable THEN TransportError
      ELSE CASE net.policy = "open"     -> ok
             [] net.policy = "digest"   ->
                  IF authentication = NoAuthentication THEN challenge(1, "") ELSE ok
             [] net.policy = "fresh"    ->
                  IF authentication # NoAuthentication /\ authentication[4] = net.nonce
                  THEN ok ELSE challenge(1, "")
             [] net.policy = "spaced"   ->
                  IF authentication # NoAuthentication /\ authentication[4] = net.nonce
                  THEN ok ELSE challenge(1, " ")
             [] net.policy = "reject"   -> challenge(1, "")
             [] net.policy = "bare401"  -> challenge(0, "")
             [] net.policy = "twice401" ->
                  IF authentication = NoAuthentication THEN challenge(2, "") ELSE ok
             [] net.policy = "hangup"   ->
                  IF authentication = NoAuthentication THEN challenge(1, "") ELSE TransportError
             [] net.policy = "garbage"  -> Response(200, <<>>, "garbage", ZeroOut)
             [] OTHER                   -> Response(500, <<>>, "", ZeroOut)

(* ---------------------------------------------------------------------- *)
(* fritzbox.go: SOAP invocation and digest authentication.                  *)
(* ---------------------------------------------------------------------- *)
(* The element of a one-element set. A value a method computes once and     *)
(* reads several times is written The({ use(x) : x \in {value} }).          *)
The(S) == CHOOSE x \in S : TRUE

(* md5Hash: the hash of a text is known by the text alone. *)
md5Hash(in) == <<"md5", in>>

(* generateCNonce: eight random bytes, in hex. *)
generateCNonce == "0123456789abcdef"

(* The cached authorization, whatever service type it was computed for. *)
getCachedDigestAuthenticationOfAnyService(deviceInfo, uri) ==
  deviceInfo.cachedAuthentication[2]

getCachedDigestAuthentication(deviceInfo, uri) ==
  IF deviceInfo.cachedAuthentication[1] = uri
  THEN deviceInfo.cachedAuthentication[2]
  ELSE NoAuthentication

(* challengeValues: the parts of the header cut in exactly two pieces, a    *)
(* later part replacing an earlier one of the same key.                     *)
RECURSIVE challengeValuesFrom(_, _, _)
challengeValuesFrom(parts, i, values) ==
  IF i > Len(parts) THEN values
  ELSE challengeValuesFrom(parts, i + 1,
         IF Len(parts[i]) = 2 THEN MapPut(values, parts[i][1], parts[i][2]) ELSE values)

(* challengeValues[key], the empty string for a missing key. *)
ValueOf(values, key) == IF key \in DOMAIN values THEN values[key] ELSE ""

(* getDigestAuthentication: the authorization answering a challenge, and    *)
(* the device info with that authorization cached for the service type.     *)
getDigestAuthentication(challenge, deviceInfo, uri) ==
  LET challengeHeader == challenge.WwwAuthenticate IN
  IF Len(challengeHeader) # 1
  THEN [err |-> TRUE, authentication |-> NoAuthentication, deviceInfo |-> deviceInfo]
  ELSE LET challengeValues == challengeValuesFrom(challengeHeader[1], 1, <<>>)
           digestRealm == ValueOf(challengeValues, "Digest realm")
           ha1 == md5Hash(<<deviceInfo.Login, digestRealm, deviceInfo.Password>>)
           ha2 == md5Hash(<<"POST", uri>>)
           nonce == ValueOf(challengeValues, "nonce")
           qop == ValueOf(challengeValues, "qop")
           cnonce == generateCNonce
           nc == "1"
           response == md5Hash(<<ha1, nonce, nc, cnonce, qop, ha2>>)
           authentication ==
             <<"Digest", deviceInfo.Login, digestRealm, nonce, uri, cnonce, nc, qop, response>>
       IN  [err |-> FALSE, authentication |-> authentication,
            deviceInfo |-> [deviceInfo EXCEPT !.cachedAuthentication = <<uri, authentication>>]]

(* postSoapActionRequest: the request sent, with an Authorization header    *)
(* only for a non-empty authentication, and the answer to it.               *)
postSoapActionRequest(net, hostname, service, action, authentication) ==
  [ request  |-> [host |-> hostname, uri |-> service, action |-> action,
                  Authorization |-> authentication],
    response |-> ServerAnswer(net, hostname, service, action, authentication) ]

(* What invokeDeviceService makes of the final response. *)
ReadResponse(deviceInfo, response, posts) ==
  IF response.StatusCode # 200
  THEN [deviceInfo |-> deviceInfo, err |-> FALSE, out |-> ZeroOut, posts |-> posts]
  ELSE IF response.body # "xml"
  THEN [deviceInfo |-> deviceInfo, err |-> TRUE, out |-> ZeroOut, posts |-> posts]
  ELSE [deviceInfo |-> deviceInfo, err |-> FALSE, out |-> response.out, posts |-> posts]

(* An invokeDeviceService that gives up on a 401 instead of answering it. *)
AnswerChallengeNoResend(net, deviceInfo, service, action, first) ==
  ReadResponse(deviceInfo, first.response, <<first>>)

(* The part of invokeDeviceService that answers a 401. *)
AnswerChallenge(net, deviceInfo, service, action, first) ==
  The({ IF d.err
        THEN ReadResponse(deviceInfo, first.response, <<first>>)
        ELSE The({ IF second.response.err
                   THEN [deviceInfo |-> d.deviceInfo, err |-> TRUE, out |-> ZeroOut,
                         posts |-> <<first, second>>]
                   ELSE ReadResponse(d.deviceInfo, second.response, <<first, second>>) :
                   second \in { postSoapActionRequest(net, deviceInfo.Hostname, service, action,
                                                      d.authentication) } }) :
        d \in { getDigestAuthentication(first.response, deviceInfo, service) } })

(* invokeDeviceService: the device info afterwards, the error returned,     *)
(* the value unmarshalled into out, and the POST round trips made.          *)
invokeDeviceService(net, deviceInfo, service, action) ==
  IF ~ControlURL(deviceInfo.Hostname, service).parseOk
  THEN [deviceInfo |-> deviceInfo, err |-> TRUE, out |-> ZeroOut, posts |-> <<>>]
  ELSE The({ IF first.response.err
             THEN [deviceInfo |-> deviceInfo, err |-> TRUE, out |-> ZeroOut, posts |-> <<first>>]
             ELSE IF first.response.StatusCode = 401
             THEN AnswerChallenge(net, deviceInfo, service, action, first)
             ELSE ReadResponse(deviceInfo, first.response, <<first>>) :
             first \in { postSoapActionRequest(net, deviceInfo.Hostname, service, action,
                           getCachedDigestAuthentication(deviceInfo, service)) } })

(* ---------------------------------------------------------------------- *)
(* fritzbox.go: the service processors.                                     *)
(* A run is the plugin together with what the run has done so far:          *)
(*   queried        the process...Service calls made                        *)
(*   invocations    the invokeDeviceService calls made, with their POSTs    *)
(*                  and the number of the process...Service call they       *)
(*                  belong to                                               *)
(*   emitted        the measurements added to the accumulator               *)
(*   errors         the raw base urls whose fetch error went to AddError    *)
(*   serviceErrors  the process...Service calls whose error went to         *)
(*                  AddError                                                *)
(*   fetched        the raw base urls whose description was fetched         *)
(* A device info is known to a run by the raw base url it is cached under.  *)
(* ---------------------------------------------------------------------- *)
(* plugin.invokeDeviceService(deviceInfo, service, action, &out) within a   *)
(* run.                                                                     *)
Invoke(net, st, raw, service, action) ==
  The({ [ st  |-> [st EXCEPT !.plugin.deviceInfos[raw] = r.deviceInfo,
                             !.done.invocations =
                               Append(@, [call |-> Len(st.done.queried),
                                          raw |-> raw, host |-> before.Hostname,
                                          service |-> service, action |-> action,
                                          posts |-> r.posts, err |-> r.err,
                                          before |-> before.cachedAuthentication,
                                          after |-> r.deviceInfo.cachedAuthentication])],
          err |-> r.err,
          out |-> r.out ] :
        <<before, r>> \in
          { <<b, invokeDeviceService(net, b, service, action)>> : b \in {st.plugin.deviceInfos[raw]} } })

(* a.AddCounter(name, fields, tags) *)
AddCounter(st, name, raw, service) ==
  [st EXCEPT !.done.emitted =
     Append(@, [name |-> name, host |-> st.plugin.deviceInfos[raw].Hostname, service |-> service])]

Returned2(st, err) == [st |-> st, err |-> err]

processDeviceInfoService(net, st, raw, service) ==
  The({ IF info.err THEN Returned2(info.st, TRUE)
        ELSE Returned2(AddCounter(info.st, "fritzbox_device", raw, service), FALSE) :
        info \in { Invoke(net, st, raw, service, "GetInfo") } })

(* The second invocation of a method that makes two, and the measurement    *)
(* added when the first reported the status wanted.                         *)
SecondInvocation(net, first, raw, service, second, action, status, name) ==
  IF first.err THEN Returned2(first.st, TRUE)
  ELSE The({ IF more.err THEN Returned2(more.st, TRUE)
             ELSE IF first.out.Status = status
             THEN Returned2(AddCounter(more.st, name, raw, service), FALSE)
             ELSE Returned2(more.st, FALSE) :
             more \in { Invoke(net, first.st, raw, second, action) } })

processWLANConfigurationService(net, st, raw, service) ==
  The({ SecondInvocation(net, info, raw, service, service, "GetTotalAssociations", "Up",
                         "fritzbox_wlan") :
        info \in { Invoke(net, st, raw, service, "GetInfo") } })

processWANCommonInterfaceConfigService(net, st, raw, service) ==
  The({ SecondInvocation(net, commonLinkProperties, raw, service,
                         igdWANCommonInterfaceConfigService, "GetAddonInfos", "Up",
                         "fritzbox_wan") :
        commonLinkProperties \in { Invoke(net, st, raw, service, "GetCommonLinkProperties") } })

processDSLInterfaceConfigService(net, st, raw, service) ==
  The({ SecondInvocation(net, info, raw, service, service, "GetStatisticsTotal", "Up",
                         "fritzbox_dsl") :
        info \in { Invoke(net, st, raw, service, "GetInfo") } })

processPPPConnectionService(net, st, raw, service) ==
  The({ IF info.err THEN Returned2(info.st, TRUE)
        ELSE IF info.out.Status = "Connected"
        THEN Returned2(AddCounter(info.st, "fritzbox_ppp", raw, service), FALSE)
        ELSE Returned2(info.st, FALSE) :
        info \in { Invoke(net, st, raw, service, "GetInfo") } })

(* fetchJSON of the mesh list: the host has to answer, and the path has to  *)
(* be the one of a mesh list for the answer to decode.                      *)
fetchJSON(net, hostname, path) ==
  [err |-> hostname \notin net.reachable \/ path = ""]

(* processHostsMeshService; the measurements of the master slave paths of   *)
(* the fetched mesh list are shown as one, those of the client paths as     *)
(* another.                                                                 *)
processHostsMeshService(net, st, raw, service) ==
  The({ IF meshListPath.err THEN Returned2(meshListPath.st, TRUE)
        ELSE IF fetchJSON(net, st.plugin.deviceInfos[raw].Hostname,
                          meshListPath.out.MeshListPath).err
        THEN Returned2(meshListPath.st, TRUE)
        ELSE IF st.plugin.GetMeshClients
        THEN Returned2(AddCounter(AddCounter(meshListPath.st, "fritzbox_mesh", raw, service),
                                  "fritzbox_mesh_client", raw, service), FALSE)
        ELSE Returned2(AddCounter(meshListPath.st, "fritzbox_mesh", raw, service), FALSE) :
        meshListPath \in { Invoke(net, st, raw, service, "X_AVM-DE_GetMeshListPath") } })

(* The queries entered so far, with one more. *)
Entered(st, raw, method, service) ==
  [st EXCEPT !.done.queried =
     Append(@, [host |-> st.plugin.deviceInfos[raw].Hostname, method |-> method,
                service |-> service])]

(* An AddError that drops what it is given. *)
AddErrorDropped(returned, hostname, method, service) == returned.st

(* a.AddError(err) of what a process...Service method returned. *)
AddError(returned, hostname, method, service) ==
  The({ IF r.err
        THEN [r.st EXCEPT !.done.serviceErrors =
                Append(@, [call |-> Len(r.st.done.queried), host |-> hostname,
                           method |-> method, service |-> service])]
        ELSE r.st :
        r \in {returned} })

(* The body of the loop of processServices for one service: the             *)
(* process...Service method it calls, if any, and a.AddError of what the    *)
(* method returns.                                                          *)
ProcessService(net, st, raw, service) ==
  LET deviceInfo == st.plugin.deviceInfos[raw]
      fullQuery == st.plugin.queryCounter = 0
  IN  IF HasPrefix(service, "urn:dslforum-org:service:DeviceInfo:")
      THEN (IF st.plugin.GetDeviceInfo /\ fullQuery
            THEN AddError(processDeviceInfoService(net,
                            Entered(st, raw, "processDeviceInfoService", service), raw, service),
                          deviceInfo.Hostname, "processDeviceInfoService", service)
            ELSE st)
      ELSE IF HasPrefix(service, "urn:dslforum-org:service:WLANConfiguration:")
      THEN (IF st.plugin.GetWLANInfo /\ fullQuery
            THEN AddError(processWLANConfigurationService(net,
                            Entered(st, raw, "processWLANConfigurationService", service), raw, service),
                          deviceInfo.Hostname, "processWLANConfigurationService", service)
            ELSE st)
      ELSE IF HasPrefix(service, "urn:dslforum-org:service:WANCommonInterfaceConfig:")
      THEN (IF st.plugin.GetWANInfo
            THEN AddError(processWANCommonInterfaceConfigService(net,
                            Entered(st, raw, "processWANCommonInterfaceConfigService", service), raw, service),
                          deviceInfo.Hostname, "processWANCommonInterfaceConfigService", service)
            ELSE st)
      ELSE IF HasPrefix(service, "urn:dslforum-org:service:WANDSLInterfaceConfig:")
      THEN (IF st.plugin.GetDSLInfo /\ fullQuery
            THEN AddError(processDSLInterfaceConfigService(net,
                            Entered(st, raw, "processDSLInterfaceConfigService", service), raw, service),
                          deviceInfo.Hostname, "processDSLInterfaceConfigService", service)
            ELSE st)
      ELSE IF HasPrefix(service, "urn:dslforum-org:service:WANPPPConnection:")
      THEN (IF st.plugin.GetPPPInfo /\ fullQuery
            THEN AddError(processPPPConnectionService(net,
                            Entered(st, raw, "processPPPConnectionService", service), raw, service),
                          deviceInfo.Hostname, "processPPPConnectionService", service)
            ELSE st)
      ELSE IF HasPrefix(service, "urn:dslforum-org:service:Hosts:")
      THEN (IF deviceInfo.GetMeshInfo /\ fullQuery
            THEN AddError(processHostsMeshService(net,
                            Entered(st, raw, "processHostsMeshService", service), raw, service),
                          deviceInfo.Hostname, "processHostsMeshService", service)
            ELSE st)
      ELSE st

RECURSIVE processServicesFrom(_, _, _, _, _)
processServicesFrom(net, st, raw, services, i) ==
  IF i > Len(services) THEN st
  ELSE The({ processServicesFrom(net, next, raw, services, i + 1) :
             next \in { ProcessService(net, st, raw, services[i]) } })

processServices(net, st, raw, services) == processServicesFrom(net, st, raw, services, 1)

RECURSIVE processDevices(_, _, _, _)
processDevices(net, st, raw, devices) ==
  IF devices = <<>> THEN st
  ELSE The({ processDevices(net, nested, raw, Tail(devices)) :
             nested \in { processDevices(net, services, raw, Head(devices).Devices) :
                          services \in { processServices(net, st, raw, Head(devices).Services) } } })

processRootDevice(net, st, raw) ==
  The({ processDevices(net, services, raw, st.plugin.deviceInfos[raw].ServiceInfo.Devices) :
        services \in { processServices(net, st, raw, st.plugin.deviceInfos[raw].ServiceInfo.Services) } })

(* A fetchDeviceInfo that does not look into plugin.deviceInfos. *)
fetchDeviceInfoAnew(pl, rawBaseUrl, login, password, reachable) ==
  IF ~UrlTable.parseOk[rawBaseUrl] \/ UrlTable.hostname[rawBaseUrl] \notin reachable
  THEN [plugin |-> pl, err |-> TRUE, fetched |-> FALSE, deviceInfo |-> Nil]
  ELSE LET hostname == UrlTable.hostname[rawBaseUrl]
           info == [ Hostname    |-> hostname,
                     Login       |-> login,
                     Password    |-> password,
                     GetMeshInfo |-> \E m \in 1..Len(pl.GetMeshInfo) : pl.GetMeshInfo[m] = hostname,
                     ServiceInfo |-> Tr64Desc(hostname),
                     cachedAuthentication |-> <<NoServiceType, NoAuthentication>> ]
       IN  [plugin |-> [pl EXCEPT !.deviceInfos = MapPut(@, rawBaseUrl, info)],
            err |-> FALSE, fetched |-> TRUE, deviceInfo |-> info]

(* fetchDeviceInfo: the cached device info of the raw base url or, when     *)
(* there is none, a freshly fetched one that is cached; an error when the   *)
(* url does not parse or the host does not answer with its description.     *)
fetchDeviceInfo(pl, rawBaseUrl, login, password, reachable) ==
  IF rawBaseUrl \in DOMAIN pl.deviceInfos
  THEN [plugin |-> pl, err |-> FALSE, fetched |-> FALSE, deviceInfo |-> pl.deviceInfos[rawBaseUrl]]
  ELSE IF ~UrlTable.parseOk[rawBaseUrl] \/ UrlTable.hostname[rawBaseUrl] \notin reachable
  THEN [plugin |-> pl, err |-> TRUE, fetched |-> FALSE, deviceInfo |-> Nil]
  ELSE LET hostname == UrlTable.hostname[rawBaseUrl]
           info == [ Hostname    |-> hostname,
                     Login       |-> login,
                     Password    |-> password,
                     GetMeshInfo |-> \E m \in 1..Len(pl.GetMeshInfo) : pl.GetMeshInfo[m] = hostname,
                     ServiceInfo |-> Tr64Desc(hostname),
                     cachedAuthentication |-> <<NoServiceType, NoAuthentication>> ]
       IN  [plugin |-> [pl EXCEPT !.deviceInfos = MapPut(@, rawBaseUrl, info)],
            err |-> FALSE, fetched |-> TRUE, deviceInfo |-> info]

(* The increment with the modulo of a cycle longer than one run only. *)
NextQueryCounterNoModuloOne(pl) ==
  IF 1 < pl.FullQueryCycle
  THEN (pl.queryCounter + 1) % pl.FullQueryCycle
  ELSE pl.queryCounter + 1

(* The increment without the modulo. *)
NextQueryCounterNoWrap(pl) == pl.queryCounter + 1

(* queryCounter++ followed by the modulo. *)
NextQueryCounter(pl) ==
  IF 1 < pl.FullQueryCycle
  THEN (pl.queryCounter + 1) % pl.FullQueryCycle
  ELSE (pl.queryCounter + 1) % 1

(* One pass of the loop of Gather, for a well-formed entry. *)
GatherDevice(net, st, device) ==
  The({ IF ~f.err
        THEN processRootDevice(net,
               [plugin |-> f.plugin,
                done |-> [st.done EXCEPT !.fetched = IF f.fetched THEN Append(@, device[1]) ELSE @]],
               device[1])
        ELSE [st EXCEPT !.done.errors = Append(@, device[1])] :
        f \in { fetchDeviceInfo(st.plugin, device[1], device[2], device[3], net.reachable) } })

(* The loop of Gather over plugin.Devices from entry i on, and what         *)
(* follows it.                                                              *)
RECURSIVE GatherFrom(_, _, _)
GatherFrom(net, st, i) ==
  IF i > Len(st.plugin.Devices)
  THEN [plugin |-> [st.plugin EXCEPT !.queryCounter = NextQueryCounter(st.plugin)],
        err |-> FALSE, done |-> st.done]
  ELSE IF Len(st.plugin.Devices[i]) # 3
  THEN [plugin |-> st.plugin, err |-> TRUE, done |-> st.done]
  ELSE The({ GatherFrom(net, next, i + 1) :
             next \in { GatherDevice(net, st, st.plugin.Devices[i]) } })

(* A Gather that counts the run whether or not it returns an error. *)
GatherCountingFailures(pl, net) ==
  IF Len(pl.Devices) = 0
  THEN [plugin |-> [pl EXCEPT !.queryCounter = NextQueryCounter(pl)], err |-> TRUE,
        done |-> NothingDone]
  ELSE The({ [out EXCEPT !.plugin.queryCounter = NextQueryCounter(pl)] :
             out \in { GatherFrom(net, [plugin |-> pl, done |-> NothingDone], 1) } })

Gather(pl, net) ==
  IF Len(pl.Devices) = 0
  THEN [plugin |-> pl, err |-> TRUE, done |-> NothingDone]
  ELSE GatherFrom(net, [plugin |-> pl, done |-> NothingDone], 1)

(* The explored configurations. *)
DeviceLists ==
  { <<>>,
    << <<"http://fritz.box:49000", "", "">> >>,
    << <<"http://fritz.box:49000", "", "">>, <<"http://fritz.repeater:49000", "admin", "secret">> >>,
    << <<"http://fritz.box:port", "", "">>, <<"http://fritz.box:49000", "admin", "secret">> >>,
    << <<"http://fritz.box:49000", "", "">>, <<"http://fritz.repeater:49000">> >>,
    << <<"http://fritz.box:49000", "", "">>, <<"http://fritz.box:49000", "admin", "secret">> >>,
    << <<"fritz.box", "", "">> >> }

FullQueryCycles == {6, 3, 2, 1, 0, -1}

(* The get_*_info flags: the defaults, everything off, everything but the   *)
(* WAN stats.                                                               *)
FlagRows ==
  { [GetDeviceInfo |-> TRUE,  GetWLANInfo |-> TRUE,  GetWANInfo |-> TRUE,
     GetDSLInfo |-> TRUE,  GetPPPInfo |-> TRUE],
    [GetDeviceInfo |-> FALSE, GetWLANInfo |-> FALSE, GetWANInfo |-> FALSE,
     GetDSLInfo |-> FALSE, GetPPPInfo |-> FALSE],
    [GetDeviceInfo |-> TRUE,  GetWLANInfo |-> TRUE,  GetWANInfo |-> FALSE,
     GetDSLInfo |-> TRUE,  GetPPPInfo |-> TRUE] }

Configured(devices, cycle, flags, mesh) ==
  [NewFritzBox EXCEPT !.Devices = devices, !.FullQueryCycle = cycle,
                      !.GetDeviceInfo = flags.GetDeviceInfo, !.GetWLANInfo = flags.GetWLANInfo,
                      !.GetWANInfo = flags.GetWANInfo, !.GetDSLInfo = flags.GetDSLInfo,
                      !.GetPPPInfo = flags.GetPPPInfo, !.GetMeshInfo = mesh]

GatherInit ==
  /\ \E kinds \in KindRows : Nodes = MakeNodes(kinds, {}, FALSE) /\ kinds[1] = "master" /\ kinds[2] = "slaveUuid"
  /\ nodeTable = [isNil |-> TRUE, entries |-> <<>>]
  /\ heap = <<>>
  /\ pc = "idle"
  /\ stack = <<>>
  /\ work = <<>>
  /\ attach = <<>>
  /\ client = Nil
  /\ clientTypes = <<>>
  /\ paths = <<>>
  /\ calls = <<>>
  /\ NoRace
  /\ gathers = <<>>
  /\ lastGather = NoLast
  /\ \E devices \in DeviceLists, cycle \in FullQueryCycles, flags \in FlagRows,
        mesh \in {<<>>, <<"fritz.box">>} :
       plugin = Configured(devices, cycle, flags, mesh)

(* What the history keeps of a Gather call. *)
Account(pl, out) ==
  [err |-> out.err, queryCounter |-> pl.queryCounter, queried |-> out.done.queried,
   errors |-> out.done.errors, fetched |-> out.done.fetched]

(* One Gather call on the network net. *)
GatherCall(net) ==
  \E out \in { Gather(plugin, net) } :
    /\ plugin' = out.plugin
    /\ gathers' = Append(gathers, Account(plugin, out))
  /\ UNCHANGED <<lastGather, seqVars, nodeTable, raceVars>>

(* The network of devices that ask for digest authentication and answer     *)
(* whenever they are reachable.                                             *)
DigestNet(reachable) ==
  [reachable |-> reachable, policy |-> "digest", nonce |-> "30492F0B4025DFF7"]

GatherNext ==
  /\ Len(gathers) < MaxGathers
  /\ \E reachable \in SUBSET Hostnames : GatherCall(DigestNet(reachable))

GatherSpec == GatherInit /\ [][GatherNext]_vars

(* ---------------------------------------------------------------------- *)
(* Gather calls against devices of every kind, looked at request by         *)
(* request.                                                                 *)
(* ---------------------------------------------------------------------- *)
(* The networks a run may meet: the nonce matters to the devices that       *)
(* remember it.                                                             *)
Networks ==
  { [reachable |-> r, policy |-> p, nonce |-> n] :
      r \in {Hostnames, {"fritz.box"}, {}}, p \in Policies, n \in Nonces }
  \ { net \in [reachable : SUBSET Hostnames, policy : Policies, nonce : Nonces] :
        net.policy \notin {"fresh", "spaced"} /\ net.nonce # "30492F0B4025DFF7" }

SoapInit ==
  /\ GatherInit
  /\ plugin.FullQueryCycle \in {1, 2}
  /\ plugin.GetWANInfo
  /\ plugin.GetMeshInfo # <<>>

(* One Gather call on the network net, kept in full. *)
SoapCall(net) ==
  /\ Len(gathers) < MaxSoapGathers
  /\ \E out \in { Gather(plugin, net) } :
       /\ plugin' = out.plugin
       /\ gathers' = Append(gathers, Account(plugin, out))
       /\ lastGather' = [net |-> net, err |-> out.err, before |-> plugin, done |-> out.done]
  /\ UNCHANGED <<seqVars, nodeTable, raceVars>>

SoapNext == \E net \in Networks : SoapCall(net)

SoapSpec == SoapInit /\ [][SoapNext]_vars

(* ---------------------------------------------------------------------- *)
(* Reading results.                                                         *)
(* ---------------------------------------------------------------------- *)
StepUids(chain) == [i \in 1..Len(chain) |-> NodeAt(chain[i].node).Uid]

NoRepeat(seq) == \A i, j \in 1..Len(seq) : i # j => seq[i] # seq[j]

Range(seq) == { seq[i] : i \in 1..Len(seq) }

Last(seq) == seq[Len(seq)]

MSReturned == { c \in 1..Len(calls) : calls[c].op = "ms" }

CLReturned == { c \in 1..Len(calls) : calls[c].op = "cl" }

(* The result lists of getMasterSlavePaths: returned, or being built. *)
MSResults ==
  { calls[c].paths : c \in MSReturned }
  \cup (IF pc = "ms" THEN {Returned(heap, paths)} ELSE {})

CLResults ==
  { calls[c].paths : c \in CLReturned }
  \cup (IF pc = "cl" THEN {Returned(heap, paths)} ELSE {})

UidsPresent == { Nodes[n].Uid : n \in 1..Len(Nodes) }

(* C1: every path returned by getMasterSlavePaths has a parent chain that   *)
(* ends at a step whose node is a master, and no two steps of the chain     *)
(* have the same node uid.                                                  *)
C1_ChainEndsAtMasterNoRepeat ==
  \A r \in MSResults : \A m \in 1..Len(r) :
    /\ isMaster(NodeAt(Last(r[m]).node))
    /\ NoRepeat(StepUids(r[m]))

C1_Witness ==
  \E c \in MSReturned : \E m \in 1..Len(calls[c].paths) :
    Len(calls[c].paths[m]) >= 3

(* The depth of the collectMasterSlavePaths call that collects frame f. *)
CallDepth(f) == 1 + (IF f.parent = Nil THEN 0 ELSE Len(Chain(heap, f.parent)))

WalkDepthBounded ==
  pc = "ms" => \A i \in 1..Len(stack) : CallDepth(stack[i]) <= Cardinality(UidsPresent)

(* C2: getMasterSlavePaths terminates on every snapshot (cycles, self       *)
(* loops, redundant links and duplicate uids included), and no              *)
(* collectMasterSlavePaths call is nested deeper than the number of         *)
(* distinct node uids.                                                      *)
C2_WalkTerminatesDepthBounded ==
  /\ [](WalkDepthBounded)
  /\ ((pc = "ms") ~> (pc = "idle"))

C2_Witness ==
  /\ pc = "ms"
  /\ \E i \in 1..Len(stack) :
       /\ CallDepth(stack[i]) = Cardinality(UidsPresent)
       /\ lookupNode(nodeTable, getPeerNodeUid(stack[i])) # Nil
       /\ contains(heap, stack[i].parent, lookupNode(nodeTable, getPeerNodeUid(stack[i])))

(* ---------------------------------------------------------------------- *)
(* Cycles.                                                                  *)
(* ---------------------------------------------------------------------- *)
(* Node x has a connected link whose peer, seen from x, is node y. *)
Linked(x, y) ==
  \E k \in 1..Len(Nodes[x].NodeInterfaces) :
    \E l \in 1..Len(Nodes[x].NodeInterfaces[k].NodeLinks) :
      /\ isConnected(LinkAt(<<x, k, l>>))
      /\ getPeerNodeUid(MeshPath(Nil, x, <<x, k>>, <<x, k, l>>)) = Nodes[y].Uid

(* The connected links of two devices form a cycle back to a master. *)
CycleToMaster ==
  \E m, a, b \in 1..Len(Nodes) :
    /\ isMaster(Nodes[m])
    /\ NoRepeat(<<Nodes[m].Uid, Nodes[a].Uid, Nodes[b].Uid>>)
    /\ Linked(m, a) /\ Linked(a, b) /\ Linked(b, m)

HeapUids == [p \in 1..Len(heap) |-> NodeAt(heap[p].node).Uid]

(* C3 as stated: in a snapshot with such a cycle, no device is the node of  *)
(* two path steps of one getMasterSlavePaths call.                          *)
C3_EachDeviceOneStep ==
  (CycleToMaster /\ pc = "ms") => NoRepeat(HeapUids)

NoRepeatOnAnyChain ==
  (CycleToMaster /\ pc = "ms") =>
     \A p \in 1..Len(heap) : NoRepeat(StepUids(Chain(heap, p)))

(* C3, amended: in a snapshot with such a cycle, no device is the node of   *)
(* two steps of the same parent chain (it may be the node of steps on       *)
(* different branches of the walk), and the call returns.                   *)
C3_EachDeviceOncePerChain ==
  /\ [](NoRepeatOnAnyChain)
  /\ ((CycleToMaster /\ pc = "ms") ~> (pc = "idle"))

C3_Witness ==
  /\ CycleToMaster
  /\ MSReturned # {}
  /\ \E p \in 1..Len(heap) : Len(Chain(heap, p)) >= 3
  /\ ~NoRepeat(HeapUids)

(* ---------------------------------------------------------------------- *)
(* Client paths.                                                            *)
(* ---------------------------------------------------------------------- *)
(* C4: every path returned by getClientPaths is a chain of exactly two      *)
(* steps (its parent is not nil, its parent's parent is nil), whatever the  *)
(* snapshot and the clientTypes filter.                                     *)
C4_ClientPathsTwoSteps ==
  \A r \in CLResults : \A m \in 1..Len(r) : Len(r[m]) = 2

C4_Witness ==
  \E c \in CLReturned :
    /\ Len(calls[c].clientTypes) > 0
    /\ Len(calls[c].paths) >= 2

(* ---------------------------------------------------------------------- *)
(* Data rates.                                                              *)
(* ---------------------------------------------------------------------- *)
StoredRates(link) ==
  <<link.MaxDataRateRx, link.MaxDataRateTx, link.CurDataRateRx, link.CurDataRateTx>>

SwappedRates(link) ==
  <<link.MaxDataRateTx, link.MaxDataRateRx, link.CurDataRateTx, link.CurDataRateRx>>

SwapPairs(t) == <<t[2], t[1], t[4], t[3]>>

(* C5: over a link with side 1 on device X and side 2 on device Y # X, a    *)
(* path step on X reads the rates as stored and a path step on Y reads them *)
(* with rx and tx swapped in the max pair and in the current pair; two      *)
(* steps on the two ends of the same link read swapped tuples.              *)
C5_DataRatesDirectionConsistent ==
  /\ \A p \in 1..Len(heap) :
       LET link == LinkAt(heap[p].nodeLink)
           uid  == NodeAt(heap[p].node).Uid
       IN  link.Node1Uid # link.Node2Uid =>
             /\ uid = link.Node1Uid => getDataRates(heap[p]) = StoredRates(link)
             /\ uid = link.Node2Uid => getDataRates(heap[p]) = SwappedRates(link)
  /\ \A p, q \in 1..Len(heap) :
       LET lp == LinkAt(heap[p].nodeLink)
           lq == LinkAt(heap[q].nodeLink)
       IN  (/\ lp = lq
            /\ lp.Node1Uid # lp.Node2Uid
            /\ NodeAt(heap[p].node).Uid = lp.Node1Uid
            /\ NodeAt(heap[q].node).Uid = lp.Node2Uid)
           => getDataRates(heap[q]) = SwapPairs(getDataRates(heap[p]))

C5_Witness ==
  \E p, q \in 1..Len(heap) :
    /\ LinkAt(heap[p].nodeLink) = LinkAt(heap[q].nodeLink)
    /\ heap[p].node # heap[q].node
    /\ NodeAt(heap[p].node).Uid = LinkAt(heap[p].nodeLink).Node1Uid
    /\ NodeAt(heap[q].node).Uid = LinkAt(heap[p].nodeLink).Node2Uid
    /\ NodeAt(heap[p].node).Uid # NodeAt(heap[q].node).Uid
    /\ getDataRates(heap[p]) # getDataRates(heap[q])

(* ---------------------------------------------------------------------- *)
(* Repeated calls.                                                          *)
(* ---------------------------------------------------------------------- *)
(* C6: two getMasterSlavePaths calls, or two getClientPaths calls with the  *)
(* same clientTypes, on the same mesh list return lists with the same       *)
(* entries (node, interface, link and parent chain) in the same order: the  *)
(* call that builds the node table and a call that reuses it agree.         *)
C6_RepeatedCallsAgree ==
  \A c, d \in 1..Len(calls) :
    (calls[c].op = calls[d].op /\ calls[c].clientTypes = calls[d].clientTypes)
      => calls[c].paths = calls[d].paths

C6_Witness ==
  /\ Len(calls) = 2
  /\ calls[1].op = calls[2].op
  /\ calls[1].clientTypes = calls[2].clientTypes
  /\ Len(calls[1].paths) > 0
  /\ Cardinality(UidsPresent) < Len(Nodes)

(* ---------------------------------------------------------------------- *)
(* One master, one named slave.                                             *)
(* ---------------------------------------------------------------------- *)
UuidNames ==
  { "123e4567-e89b-12d3-a456-426614174000",
    "urn:uuid:123e4567-e89b-12d3-a456-426614174000",
    "123e4567e89b12d3a456426614174000" }

NamedSlave(n) ==
  /\ Nodes[n].IsMeshed /\ Nodes[n].MeshRole = "slave"
  /\ Nodes[n].DeviceName \notin UuidNames \cup {""}

LinkPointers(n) == Range(LinksOfNode(n))

IsUp(l) == LinkAt(l).State = "CONNECTED"

Touches(l, i) ==
  /\ IsUp(l)
  /\ InterfaceAt(i).Uid \in {LinkAt(l).NodeInterface1Uid, LinkAt(l).NodeInterface2Uid}

PeerUidFrom(n, l) ==
  IF Nodes[n].Uid = LinkAt(l).Node1Uid THEN LinkAt(l).Node2Uid ELSE LinkAt(l).Node1Uid

(* M is the only master, S the only validly named slave and the only node   *)
(* with its uid, and every connected link of M leads to S.                  *)
DirectlyJoined(M, S) ==
  /\ \A n \in 1..Len(Nodes) : isMaster(Nodes[n]) <=> n = M
  /\ \A n \in 1..Len(Nodes) : NamedSlave(n) <=> n = S
  /\ \A n \in 1..Len(Nodes) : Nodes[n].Uid = Nodes[S].Uid <=> n = S
  /\ \E l \in LinkPointers(M) : IsUp(l)
  /\ \A l \in LinkPointers(M) : IsUp(l) => PeerUidFrom(M, l) = Nodes[S].Uid

StepOver(l) == [node |-> l[1], nodeInterface |-> <<l[1], l[2]>>, nodeLink |-> l]

RatesOfStep(step) ==
  getDataRates(MeshPath(Nil, step.node, step.nodeInterface, step.nodeLink))

(* C7: with one master M and one validly named slave S directly joined by   *)
(* connected links, getMasterSlavePaths returns, for each seed step of M,   *)
(* exactly one path per connected link on S's interfaces that touches the   *)
(* seed step's interface; each returned path is a step on S whose parent    *)
(* and root is that seed step of M, and the root's data rates are the seed  *)
(* link's rates read from M's side.                                         *)
C7_OneMasterOneSlave ==
  \A M, S \in 1..Len(Nodes) : DirectlyJoined(M, S) =>
    \A c \in MSReturned :
      LET r == calls[c].paths IN
      /\ \A m \in 1..Len(r) :
           /\ Len(r[m]) = 2
           /\ r[m][1].node = S
           /\ r[m][1].nodeLink \in
                { l \in LinkPointers(S) : Touches(l, r[m][2].nodeInterface) }
           /\ r[m][2].node = M
           /\ r[m][2].nodeLink \in { l \in LinkPointers(M) : IsUp(l) }
           /\ r[m][2] = StepOver(r[m][2].nodeLink)
           /\ RatesOfStep(r[m][2]) =
                (IF Nodes[M].Uid = LinkAt(r[m][2].nodeLink).Node1Uid
                 THEN StoredRates(LinkAt(r[m][2].nodeLink))
                 ELSE SwappedRates(LinkAt(r[m][2].nodeLink)))
      /\ \A seed \in { l \in LinkPointers(M) : IsUp(l) } :
           \A t \in { l \in LinkPointers(S) : Touches(l, <<seed[1], seed[2]>>) } :
             Cardinality({ m \in 1..Len(r) : r[m] = <<StepOver(t), StepOver(seed)>> }) = 1

C7_Witness ==
  \E M, S \in 1..Len(Nodes) :
    /\ DirectlyJoined(M, S)
    /\ \E c \in MSReturned : Len(calls[c].paths) = 1
    /\ \E l \in LinkPointers(S) : IsUp(l) /\ \A m \in LinkPointers(M) : ~Touches(l, <<m[1], m[2]>>)

(* ---------------------------------------------------------------------- *)
(* Slaves without a valid device name.                                      *)
(* ---------------------------------------------------------------------- *)
UnnamedSlave(n) ==
  /\ Nodes[n].IsMeshed /\ Nodes[n].MeshRole = "slave"
  /\ Nodes[n].DeviceName \in UuidNames \cup {""}

(* The node the collectMasterSlavePaths call for frame f reaches: the peer  *)
(* of f's link, when the snapshot holds it and f's chain does not.          *)
Reached(f) ==
  LET peerUid == PeerUidFrom(f.node, f.nodeLink)
      onChain == {Nodes[f.node].Uid}
                 \cup (IF f.parent = Nil THEN {}
                       ELSE Range(StepUids(Chain(heap, f.parent))))
  IN  IF peerUid \in UidsPresent /\ peerUid \notin onChain
      THEN lookupNode(nodeTable, peerUid)
      ELSE Nil

NoUnnamedSlaveReturned ==
  \A r \in MSResults : \A m \in 1..Len(r) : ~UnnamedSlave(r[m][1].node)

UnnamedSlaveRelays ==
  (pc = "ms" /\ stack # <<>> /\ stack' # stack
     /\ Reached(Head(stack)) # Nil /\ UnnamedSlave(Reached(Head(stack))))
  => LET n  == Reached(Head(stack))
         up == SelectSeq(LinksOfNode(n), IsUp)
     IN  /\ paths' = paths
         /\ stack' = [m \in 1..Len(up) |->
                        MeshPath(Len(heap) + 1, n, <<n, up[m][2]>>, up[m])]
                     \o Tail(stack)

(* C8: a slave whose device name is empty or a UUID string is never the     *)
(* node of a path returned by getMasterSlavePaths; when the walk reaches    *)
(* it, nothing is appended and the walk goes on through every connected     *)
(* link of it.                                                              *)
C8_UnnamedSlaveIsRelay ==
  /\ [](NoUnnamedSlaveReturned)
  /\ [][UnnamedSlaveRelays]_vars

C8_Witness ==
  \E c \in MSReturned : \E m \in 1..Len(calls[c].paths) :
    LET ch == calls[c].paths[m] IN
    /\ Len(ch) = 3
    /\ UnnamedSlave(ch[2].node)
    /\ Nodes[ch[2].node].DeviceName # ""
    /\ isMaster(Nodes[ch[3].node])

(* ---------------------------------------------------------------------- *)
(* Clients whose peers are absent.                                          *)
(* ---------------------------------------------------------------------- *)
NamedClient(n) ==
  ~Nodes[n].IsMeshed /\ Nodes[n].DeviceName \notin UuidNames \cup {""}

Unattached(n) ==
  /\ NamedClient(n)
  /\ \A l \in LinkPointers(n) : IsUp(l) => PeerUidFrom(n, l) \notin UidsPresent

(* C9: getClientPaths returns no entry for a validly named non-mesh device  *)
(* all of whose connected links name a peer uid that no node of the         *)
(* snapshot has.                                                            *)
C9_NoEntryForUnattachedClient ==
  \A n \in 1..Len(Nodes) : Unattached(n) =>
    \A r \in CLResults : \A m \in 1..Len(r) : r[m][1].node # n

C9_Witness ==
  \E n \in 1..Len(Nodes) :
    /\ Unattached(n)
    /\ \E l \in LinkPointers(n) : IsUp(l)
    /\ \E m \in 1..Len(Nodes) : m # n /\ ~Unattached(m) /\ NamedClient(m)
    /\ \E c \in CLReturned : calls[c].clientTypes = <<>> /\ Len(calls[c].paths) > 0

(* ---------------------------------------------------------------------- *)
(* Duplicate uids.                                                          *)
(* ---------------------------------------------------------------------- *)
FirstWithUid(uid) ==
  CHOOSE n \in 1..Len(Nodes) :
    Nodes[n].Uid = uid /\ \A m \in 1..Len(Nodes) : Nodes[m].Uid = uid => n <= m

LastWithUid(uid) ==
  CHOOSE n \in 1..Len(Nodes) :
    Nodes[n].Uid = uid /\ \A m \in 1..Len(Nodes) : Nodes[m].Uid = uid => m <= n

(* C10 as stated: once the table is built, lookupNode returns the first     *)
(* node of the snapshot that has the uid.                                   *)
C10_LookupFirstOccurrence ==
  ~nodeTable.isNil =>
    \A uid \in UidsPresent : lookupNode(nodeTable, uid) = FirstWithUid(uid)

(* C10, amended: when several nodes of the snapshot have the same uid,      *)
(* lookupNode returns the last of them in snapshot order (building the      *)
(* table keeps the last occurrence), and the build does not fail.           *)
C10_LookupLastOccurrence ==
  ~nodeTable.isNil =>
    /\ DOMAIN nodeTable.entries = UidsPresent
    /\ \A uid \in UidsPresent : lookupNode(nodeTable, uid) = LastWithUid(uid)

C10_Witness ==
  /\ ~nodeTable.isNil
  /\ \E uid \in UidsPresent : FirstWithUid(uid) # LastWithUid(uid)
  /\ calls # <<>>

(* ---------------------------------------------------------------------- *)
(* The node table.                                                          *)
(* ---------------------------------------------------------------------- *)
(* Uids no node of the snapshot has; the first is the peer of the links     *)
(* that lead out of the snapshot.                                           *)
AbsentUids == {GhostUid, "", "n0"} \ UidsPresent

(* The uids lookupNode has been asked for by the running call. *)
LookedUp == { getPeerNodeUid(heap[p]) : p \in 1..Len(heap) }

(* C11 as stated: once built, the table maps the uid of every node of the   *)
(* snapshot to that node, and lookupNode returns nil for a uid no node has. *)
C11_IndexMapsEveryDevice ==
  ~nodeTable.isNil =>
    /\ \A n \in 1..Len(Nodes) : lookupNode(nodeTable, Nodes[n].Uid) = n
    /\ \A uid \in AbsentUids : lookupNode(nodeTable, uid) = Nil

(* C11, amended: once built, the table maps the uid of a node to that node  *)
(* exactly when no later node of the snapshot has the same uid (a node      *)
(* whose uid a later node repeats is mapped to the last node with the uid), *)
(* and lookupNode returns nil for a uid no node has.                        *)
C11_IndexMapsLastCarrier ==
  ~nodeTable.isNil =>
    /\ \A n \in 1..Len(Nodes) :
         LET later == { m \in (n + 1)..Len(Nodes) : Nodes[m].Uid = Nodes[n].Uid }
         IN  /\ later = {} => lookupNode(nodeTable, Nodes[n].Uid) = n
             /\ later # {} => /\ lookupNode(nodeTable, Nodes[n].Uid) \in later
                              /\ (lookupNode(nodeTable, Nodes[n].Uid) + 1)..Len(Nodes)
                                   \cap later = {}
    /\ \A uid \in AbsentUids : lookupNode(nodeTable, uid) = Nil

C11_Witness ==
  /\ ~nodeTable.isNil
  /\ Cardinality(UidsPresent) < Len(Nodes)
  /\ GhostUid \in LookedUp

(* C12 as stated: when goroutines call lookupNode concurrently on a mesh    *)
(* list whose node table is not built yet, the table is made once, and no   *)
(* call returns nil for a uid a node of the snapshot has.                   *)
C12_BuiltOnceNeverPartial ==
  /\ builds <= 1
  /\ ~fatal
  /\ \A g \in Goroutines :
       (goroutines[g].pc = "done" /\ goroutines[g].uid \in UidsPresent)
         => goroutines[g].result # Nil

(* ---------------------------------------------------------------------- *)
(* Which named slaves a master reaches.                                     *)
(* ---------------------------------------------------------------------- *)
(* The nodes reachable from the nodes of S over connected links whose peer  *)
(* is in the snapshot, in at most n hops.                                   *)
RECURSIVE ReachableWithin(_, _)
ReachableWithin(S, n) ==
  IF n = 0 THEN S
  ELSE ReachableWithin(S \cup { y \in 1..Len(Nodes) : \E x \in S : Linked(x, y) }, n - 1)

HasUpLink(n) == \E l \in LinkPointers(n) : IsUp(l)

(* C13 as stated: every validly named slave reachable from a master with a  *)
(* connected link, over connected links through nodes of the snapshot, is   *)
(* the node of at least one returned path.                                  *)
C13_EveryReachableRepeaterReturned ==
  \A c \in MSReturned : \A M, R \in 1..Len(Nodes) :
    (/\ isMaster(Nodes[M]) /\ HasUpLink(M)
     /\ NamedSlave(R)
     /\ R \in ReachableWithin({M}, Len(Nodes)) \ {M})
    => \E m \in 1..Len(calls[c].paths) : calls[c].paths[m][1].node = R

(* Link l (connected, on node l[1]) ends a chain with the uids `seen` on    *)
(* it. The chain arrives at named slave R when the peer of l is in the      *)
(* snapshot with a uid not yet on the chain and either is R, with a         *)
(* connected link record of its own that touches the interface of l, or is  *)
(* not a validly named slave and has a connected link that arrives at R.    *)
RECURSIVE ArrivesAt(_, _, _)
ArrivesAt(l, seen, R) ==
  LET peerUid == PeerUidFrom(l[1], l) IN
  /\ peerUid \in UidsPresent
  /\ peerUid \notin seen
  /\ LET peer == LastWithUid(peerUid) IN
     IF NamedSlave(peer)
     THEN /\ peer = R
          /\ \E t \in LinkPointers(R) : Touches(t, <<l[1], l[2]>>)
     ELSE \E t \in LinkPointers(peer) :
            IsUp(t) /\ ArrivesAt(t, seen \cup {peerUid}, R)

Owed(R) ==
  \E M \in 1..Len(Nodes) :
    /\ isMaster(Nodes[M])
    /\ \E l \in LinkPointers(M) : IsUp(l) /\ ArrivesAt(l, {Nodes[M].Uid}, R)

(* C13, amended: a validly named slave is the node of at least one returned *)
(* path when a chain of connected links leads to it from a master that      *)
(* visits no uid twice, passes only through nodes of the snapshot that are  *)
(* not validly named slaves, and whose last link is mirrored by a connected *)
(* link record on the slave itself that touches the interface the chain     *)
(* arrives from.                                                            *)
C13_EveryArrivedRepeaterReturned ==
  \A R \in 1..Len(Nodes) :
    (MSReturned # {} /\ NamedSlave(R) /\ Owed(R))
    => \A c \in MSReturned :
         \E m \in 1..Len(calls[c].paths) : calls[c].paths[m][1].node = R

C13_Witness ==
  \E c \in MSReturned : \E R, Q \in 1..Len(Nodes) :
    /\ NamedSlave(R) /\ Owed(R)
    /\ \E m \in 1..Len(calls[c].paths) :
         /\ calls[c].paths[m][1].node = R
         /\ Len(calls[c].paths[m]) = 2
    /\ NamedSlave(Q) /\ ~Owed(Q)
    /\ \E M \in 1..Len(Nodes) :
         isMaster(Nodes[M]) /\ Q \in ReachableWithin({M}, Len(Nodes)) \ {M}

(* ---------------------------------------------------------------------- *)
(* Order of the returned master/slave paths.                                *)
(* ---------------------------------------------------------------------- *)
(* The links of a chain from its seed down to the returned step. *)
RootFirst(chain) == [i \in 1..Len(chain) |-> chain[Len(chain) + 1 - i].nodeLink]

(* Link pointer x comes before y: earlier node, then earlier interface,     *)
(* then earlier link.                                                       *)
PointerBefore(x, y) ==
  \/ x[1] < y[1]
  \/ x[1] = y[1] /\ x[2] < y[2]
  \/ x[1] = y[1] /\ x[2] = y[2] /\ x[3] < y[3]

(* Walk a comes before walk b: where they part, a takes the earlier link. *)
WalkBefore(a, b) ==
  \E i \in 1..Len(a) :
    /\ i <= Len(b)
    /\ \A j \in 1..(i - 1) : a[j] = b[j]
    /\ PointerBefore(a[i], b[i])

(* C14: the list returned by getMasterSlavePaths is in seed order (master   *)
(* in snapshot order, then interface, then link) and, within one seed, in   *)
(* depth-first order of the walk: of two entries the earlier one takes the  *)
(* earlier link at the first step where their chains part.                  *)
C14_SeedThenDepthFirstOrder ==
  \A r \in MSResults : \A m, n \in 1..Len(r) :
    m < n =>
      /\ WalkBefore(RootFirst(r[m]), RootFirst(r[n]))
      /\ ~PointerBefore(Last(r[n]).nodeLink, Last(r[m]).nodeLink)

(* An earlier seed's result lies deeper than a later seed's: a walk by      *)
(* levels would return them the other way round.                            *)
C14_Witness ==
  \E c \in MSReturned :
    LET r == calls[c].paths IN
    \E m, n \in 1..Len(r) :
      m < n /\ Last(r[m]) # Last(r[n]) /\ Len(r[m]) > Len(r[n])

(* ---------------------------------------------------------------------- *)
(* Which client links getClientPaths reports.                               *)
(* ---------------------------------------------------------------------- *)
(* The getClientPaths results with their clientTypes: returned, or being    *)
(* built.                                                                   *)
CLResultsBy ==
  { [types |-> calls[c].clientTypes, paths |-> calls[c].paths] : c \in CLReturned }
  \cup (IF pc = "cl" THEN {[types |-> clientTypes, paths |-> Returned(heap, paths)]}
        ELSE {})

AllLinkPointers == UNION { LinkPointers(n) : n \in 1..Len(Nodes) }

InFilter(types, i) == types = <<>> \/ InterfaceAt(i).Type \in Range(types)

(* The link is a connected link on an included interface of a validly named *)
(* non-mesh device.                                                         *)
ClientCombination(types, l) ==
  /\ NamedClient(l[1])
  /\ IsUp(l)
  /\ InFilter(types, <<l[1], l[2]>>)

(* The peer interfaces the link touches: interfaces of the device the node  *)
(* table holds for the peer uid.                                            *)
TouchedPeerInterfaces(l) ==
  LET peerUid == PeerUidFrom(l[1], l) IN
  IF peerUid \notin UidsPresent THEN {}
  ELSE LET peer == LastWithUid(peerUid)
       IN  { <<peer, k>> : k \in { j \in 1..Len(Nodes[peer].NodeInterfaces) :
                                     Touches(l, <<peer, j>>) } }

(* C15: every entry of a getClientPaths result is a step over a connected   *)
(* link on an included interface of a validly named non-mesh device; every  *)
(* such link whose peer is in the snapshot with an interface the link       *)
(* touches has an entry in the returned list; the entries are in snapshot   *)
(* order.                                                                   *)
C15_ClientEntriesExactlyTheAttachedLinks ==
  /\ \A res \in CLResultsBy : \A m \in 1..Len(res.paths) :
       LET step == res.paths[m][1] IN
       /\ step = StepOver(step.nodeLink)
       /\ ClientCombination(res.types, step.nodeLink)
       /\ \A n \in (m + 1)..Len(res.paths) :
            ~PointerBefore(res.paths[n][1].nodeLink, step.nodeLink)
  /\ CLReturned # {} =>
       \A l \in AllLinkPointers :
         (IsUp(l) /\ NamedClient(l[1]) /\ TouchedPeerInterfaces(l) # {}) =>
           \A c \in CLReturned :
             ClientCombination(calls[c].clientTypes, l)
             => \E m \in 1..Len(calls[c].paths) : calls[c].paths[m][1] = StepOver(l)

C15_Witness ==
  \E c \in CLReturned :
    /\ calls[c].clientTypes # <<>>
    /\ Len(calls[c].paths) > 0
    /\ \E l \in AllLinkPointers :
         /\ ClientCombination(<<>>, l)
         /\ ~ClientCombination(calls[c].clientTypes, l)
         /\ TouchedPeerInterfaces(l) # {}

(* The entries of result list r that are steps over client link l. *)
EntriesOver(r, l) == { m \in 1..Len(r) : r[m][1] = StepOver(l) }

(* C16 as stated: when a client's connected link touches k interfaces of    *)
(* its peer, the returned list has k entries for the link, and for each of  *)
(* the k interfaces an entry whose parent step is on that interface.        *)
C16_OneEntryPerPeerInterface ==
  \A c \in CLReturned : \A l \in AllLinkPointers :
    ClientCombination(calls[c].clientTypes, l) =>
      /\ Cardinality(EntriesOver(calls[c].paths, l)) = Cardinality(TouchedPeerInterfaces(l))
      /\ \A i \in TouchedPeerInterfaces(l) :
           \E m \in EntriesOver(calls[c].paths, l) :
             calls[c].paths[m][2].nodeInterface = i

(* ---------------------------------------------------------------------- *)
(* Path steps and the two sides of their link.                              *)
(* ---------------------------------------------------------------------- *)
OnASide(step) ==
  Nodes[step.node].Uid \in {LinkAt(step.nodeLink).Node1Uid, LinkAt(step.nodeLink).Node2Uid}

(* The path steps of the running call: constructed, or about to be. *)
StepsCreated == Range(heap) \cup (IF pc = "ms" THEN Range(stack) ELSE {})

StoredAtAnEnd ==
  \A l \in AllLinkPointers :
    IsUp(l) => Nodes[l[1]].Uid \in {LinkAt(l).Node1Uid, LinkAt(l).Node2Uid}

PointsIntoSnapshot(step) ==
  /\ step.node \in 1..Len(Nodes)
  /\ step.nodeInterface[1] = step.node
  /\ step.nodeInterface[2] \in 1..Len(Nodes[step.node].NodeInterfaces)
  /\ step.nodeLink[1] \in 1..Len(Nodes)
  /\ step.nodeLink[2] \in 1..Len(Nodes[step.nodeLink[1]].NodeInterfaces)
  /\ step.nodeLink[3] \in 1..Len(Nodes[step.nodeLink[1]].NodeInterfaces[step.nodeLink[2]].NodeLinks)
  /\ step.parent \in 0..Len(heap)

NoNilDereference ==
  /\ pc \in {"idle", "ms", "cl"}
  /\ \A step \in StepsCreated : PointsIntoSnapshot(step)
  /\ \A p \in Range(paths) : p \in 1..Len(heap)

(* The peer uid of the link the next step looks up. *)
NextLookup ==
  IF pc = "ms" /\ stack # <<>> THEN PeerUidFrom(Head(stack).node, Head(stack).nodeLink)
  ELSE IF pc = "cl" /\ attach = <<>> /\ work # <<>> THEN PeerUidFrom(Head(work)[1], Head(work))
  ELSE GhostUid

(* A step whose lookup finds no node appends nothing and goes on with the   *)
(* next link.                                                               *)
AbsentPeerSkipped ==
  (pc # "idle" /\ NextLookup \notin UidsPresent /\ <<stack, work>>' # <<stack, work>>)
  => /\ paths' = paths
     /\ stack' = IF stack = <<>> THEN stack ELSE Tail(stack)
     /\ attach' = <<>>
     /\ pc' = pc

(* C18: on any snapshot (absent peers, duplicate uids, cycles, self loops,  *)
(* nodes without interfaces, unnamed nodes) every getMasterSlavePaths and   *)
(* getClientPaths call returns a list; no step dereferences a nil node or a *)
(* pointer outside the snapshot, and a link to an absent peer is skipped.   *)
C18_CallsReturnWithoutFailure ==
  /\ [](NoNilDereference)
  /\ [][AbsentPeerSkipped]_vars
  /\ ((pc # "idle") ~> (pc = "idle"))

C18_Witness ==
  /\ pc = "idle"
  /\ MSReturned # {} /\ CLReturned # {}
  /\ \E n \in 1..Len(Nodes) :
       /\ Nodes[n].NodeInterfaces = <<>>
       /\ \E l \in AllLinkPointers : IsUp(l) /\ PeerUidFrom(l[1], l) = Nodes[n].Uid

(* ---------------------------------------------------------------------- *)
(* What the resolvers change.                                               *)
(* ---------------------------------------------------------------------- *)
(* The paths of the running call that are finished: every path but the      *)
(* client path whose parent is still to be set, and every path that has     *)
(* been appended to the result list.                                        *)
Finished == { p \in 1..Len(heap) : p # client \/ p \in Range(paths) }

(* C19 as stated: a step of either resolver leaves the nodes, interfaces    *)
(* and links of the snapshot as they are, and leaves every finished path    *)
(* of the running call as it is; the parent of a path already appended to   *)
(* the result list does not change.                                         *)
C19_SnapshotAndPathsUnchanged ==
  [][ /\ Nodes' = Nodes
      /\ (pc # "idle" /\ pc' # "idle") =>
           \A p \in Finished : heap'[p] = heap[p] ]_vars

(* ---------------------------------------------------------------------- *)
(* The query cycle.                                                         *)
(* ---------------------------------------------------------------------- *)
(* The services of a description, those of its embedded devices included.   *)
RECURSIVE ServicesOf(_)
ServicesOf(device) ==
  Range(device.Services)
  \cup UNION { ServicesOf(device.Devices[i]) : i \in 1..Len(device.Devices) }

(* The queries the configuration asks for, by service: the method that      *)
(* performs the query and whether the query is configured for the host.     *)
ConfiguredQueries(hostname) ==
  { q \in
      { [base |-> "DeviceInfo", method |-> "processDeviceInfoService",
         configured |-> plugin.GetDeviceInfo, wan |-> FALSE],
        [base |-> "WLANConfiguration", method |-> "processWLANConfigurationService",
         configured |-> plugin.GetWLANInfo, wan |-> FALSE],
        [base |-> "WANCommonInterfaceConfig", method |-> "processWANCommonInterfaceConfigService",
         configured |-> plugin.GetWANInfo, wan |-> TRUE],
        [base |-> "WANDSLInterfaceConfig", method |-> "processDSLInterfaceConfigService",
         configured |-> plugin.GetDSLInfo, wan |-> FALSE],
        [base |-> "WANPPPConnection", method |-> "processPPPConnectionService",
         configured |-> plugin.GetPPPInfo, wan |-> FALSE],
        [base |-> "Hosts", method |-> "processHostsMeshService",
         configured |-> hostname \in Range(plugin.GetMeshInfo), wan |-> FALSE] } :
      q.configured }

(* The queries a run owes a host: every configured query for each service   *)
(* of the host's description in a full run, the WAN stats alone otherwise.  *)
OwedQueries(hostname, full) ==
  { [host |-> hostname, method |-> q.method, service |-> service] :
      <<q, service>> \in
        { x \in ConfiguredQueries(hostname) \X ServicesOf(Tr64Desc(hostname)) :
            /\ x[2][1] = "urn:dslforum-org:service:" \o x[1].base \o ":"
            /\ full \/ x[1].wan } }

(* The hosts whose description run k had. *)
Described(k) ==
  { UrlTable.hostname[plugin.Devices[i][1]] :
      i \in { j \in 1..Len(plugin.Devices) : plugin.Devices[j][1] \notin Range(gathers[k].errors) } }

SuccessfulBefore(k) == Cardinality({ j \in 1..(k - 1) : ~gathers[j].err })

(* C20: with full_query_cycle = N >= 1, the successful Gather runs (those   *)
(* that return no error) number 1, N+1, 2N+1, ... perform every configured  *)
(* query on every device whose description the run has, and the N-1         *)
(* successful runs between two of them perform the WAN stats query and no   *)
(* other; this holds for every run of every sequence of Gather calls.       *)
C20_EveryNthRunIsFull ==
  plugin.FullQueryCycle >= 1 =>
    \A k \in 1..Len(gathers) :
      ~gathers[k].err =>
        Range(gathers[k].queried) =
          UNION { OwedQueries(h, SuccessfulBefore(k) % plugin.FullQueryCycle = 0) : h \in Described(k) }

C20_Witness ==
  /\ plugin.FullQueryCycle = 6
  /\ Len(gathers) = 2 * 6 + 1
  /\ \A k \in 1..Len(gathers) :
       /\ ~gathers[k].err
       /\ \E q \in Range(gathers[k].queried) : q.method = "processWANCommonInterfaceConfigService"
       /\ (\E q \in Range(gathers[k].queried) : q.method = "processDeviceInfoService")
            <=> k \in {1, 6 + 1, 2 * 6 + 1}
       /\ (\E q \in Range(gathers[k].queried) : q.method = "processHostsMeshService")
            <=> k \in {1, 6 + 1, 2 * 6 + 1}

(* ---------------------------------------------------------------------- *)
(* Errors of a Gather call.                                                 *)
(* ---------------------------------------------------------------------- *)
(* A Gather call has been made and kept in full. *)
Gathered == lastGather # NoLast

WellFormed(devices) == \A i \in 1..Len(devices) : Len(devices[i]) = 3

(* The description of entry i of the device list was not to be had in the   *)
(* latest run: nothing cached before the run, and a url that does not parse *)
(* or a host that does not answer.                                          *)
Undescribed(i) ==
  LET raw == lastGather.before.Devices[i][1] IN
  /\ raw \notin DOMAIN lastGather.before.deviceInfos
  /\ ~UrlTable.parseOk[raw] \/ UrlTable.hostname[raw] \notin lastGather.net.reachable

(* The services of entry i's description were all looked at in the latest   *)
(* run: every query the run owes the host was entered.                      *)
Processed(i) ==
  LET hostname == UrlTable.hostname[lastGather.before.Devices[i][1]] IN
  OwedQueries(hostname, lastGather.before.queryCounter = 0) \subseteq Range(lastGather.done.queried)

(* An invocation of the latest run failed: it returned an error, or its     *)
(* last response was not a 200.                                             *)
Failed(inv) ==
  \/ inv.err
  \/ inv.posts # <<>> /\ Last(inv.posts).response.StatusCode # 200

ReportedCalls == { lastGather.done.serviceErrors[e].call : e \in 1..Len(lastGather.done.serviceErrors) }

EmptyListRefused ==
  lastGather.before.Devices = <<>> => lastGather.err /\ lastGather.done = NothingDone

MalformedEntryRefused ==
  ~WellFormed(lastGather.before.Devices) => lastGather.err

EveryDeviceTried ==
  (lastGather.before.Devices # <<>> /\ WellFormed(lastGather.before.Devices)) =>
    /\ ~lastGather.err
    /\ \A i \in 1..Len(lastGather.before.Devices) :
         IF Undescribed(i)
         THEN lastGather.before.Devices[i][1] \in Range(lastGather.done.errors)
         ELSE Processed(i)

(* C21 as stated: an empty device list is refused and nothing is queried; a *)
(* malformed entry is refused; with well-formed entries Gather returns no   *)
(* error, every device is tried, and every failure to fetch or to process   *)
(* is reported to the accumulator.                                          *)
C21_EveryFailureReported ==
  Gathered =>
    /\ EmptyListRefused
    /\ MalformedEntryRefused
    /\ EveryDeviceTried
    /\ \A k \in 1..Len(lastGather.done.invocations) :
         Failed(lastGather.done.invocations[k]) =>
           lastGather.done.invocations[k].call \in ReportedCalls

(* C21, amended: as stated, with the failures to process that are reported  *)
(* being the errors invokeDeviceService returns: a control url that does    *)
(* not parse, a request that gets no response, a 200 response whose body    *)
(* does not decode.                                                         *)
C21_EveryErrorReported ==
  Gathered =>
    /\ EmptyListRefused
    /\ MalformedEntryRefused
    /\ EveryDeviceTried
    /\ \A k \in 1..Len(lastGather.done.invocations) :
         lastGather.done.invocations[k].err =>
           lastGather.done.invocations[k].call \in ReportedCalls

C21_Witness ==
  /\ Gathered /\ ~lastGather.err
  /\ Len(lastGather.before.Devices) = 2
  /\ Undescribed(1) /\ ~Undescribed(2)
  /\ lastGather.done.errors = <<lastGather.before.Devices[1][1]>>
  /\ lastGather.done.serviceErrors # <<>>
  /\ \E k \in 1..Len(lastGather.done.queried) :
       k \notin ReportedCalls /\ \E e \in ReportedCalls : e < k

(* ---------------------------------------------------------------------- *)
(* Digest authentication of a SOAP invocation.                              *)
(* ---------------------------------------------------------------------- *)
Invocations == Range(lastGather.done.invocations)

(* The first POST of the invocation carries no Authorization header and is  *)
(* answered 401 with one Digest challenge.                                  *)
Challenged(inv) ==
  /\ inv.posts # <<>>
  /\ inv.posts[1].request.Authorization = NoAuthentication
  /\ ~inv.posts[1].response.err
  /\ inv.posts[1].response.StatusCode = 401
  /\ Len(inv.posts[1].response.WwwAuthenticate) = 1

(* The challenge is written the way the test server writes it. *)
WrittenWithoutBlanks(challenge) ==
  \A k \in 1..Len(challenge) : challenge[k][1] \in {"Digest realm", "nonce", "algorithm", "qop"}

(* The parameter of a challenge with the given name, blanks aside. *)
ChallengeParameter(challenge, name) ==
  LET k == CHOOSE k \in 1..Len(challenge) : challenge[k][1] \in {name, " " \o name}
  IN  challenge[k][2]

(* The authorization is the digest answer of the device's login to the      *)
(* challenge, for the service type as uri.                                  *)
ComputedFrom(authorization, challenge, deviceInfo, uri) ==
  /\ authorization # NoAuthentication
  /\ authorization[1] = "Digest"
  /\ authorization[2] = deviceInfo.Login
  /\ authorization[3] = ChallengeParameter(challenge, "Digest realm")
  /\ authorization[5] = uri
  /\ WrittenWithoutBlanks(challenge) =>
       /\ authorization[4] = ChallengeParameter(challenge, "nonce")
       /\ authorization[8] = ChallengeParameter(challenge, "qop")
       /\ authorization[9] =
            md5Hash(<< md5Hash(<<deviceInfo.Login, authorization[3], deviceInfo.Password>>),
                       authorization[4], authorization[7], authorization[6], authorization[8],
                       md5Hash(<<"POST", uri>>) >>)

(* The second POST of the invocation is the first one again, with an        *)
(* Authorization header computed from the challenge.                        *)
ResentOnce(inv) ==
  /\ Len(inv.posts) = 2
  /\ inv.posts[2].request = [inv.posts[1].request EXCEPT
                               !.Authorization = inv.posts[2].request.Authorization]
  /\ ComputedFrom(inv.posts[2].request.Authorization, inv.posts[1].response.WwwAuthenticate[1],
                  plugin.deviceInfos[inv.raw], inv.service)

(* The run is one against the test server: every configured device is the  *)
(* described Fritz!Box, which asks for digest authentication and accepts    *)
(* the answer.                                                              *)
AgainstTestServer ==
  /\ Gathered
  /\ lastGather.net.policy \in {"digest", "fresh"}
  /\ "fritz.box" \in lastGather.net.reachable
  /\ lastGather.before.Devices # <<>>
  /\ \A i \in 1..Len(lastGather.before.Devices) :
       /\ Len(lastGather.before.Devices[i]) = 3
       /\ lastGather.before.Devices[i][1] = "http://fritz.box:49000"

(* The measurements the configuration asks of the test server in a run. *)
ConfiguredMeasurements ==
  LET pl == lastGather.before
      full == pl.queryCounter = 0
  IN  (IF pl.GetDeviceInfo /\ full THEN {"fritzbox_device"} ELSE {})
      \cup (IF pl.GetWLANInfo /\ full THEN {"fritzbox_wlan"} ELSE {})
      \cup (IF pl.GetWANInfo THEN {"fritzbox_wan"} ELSE {})
      \cup (IF pl.GetDSLInfo /\ full THEN {"fritzbox_dsl"} ELSE {})
      \cup (IF pl.GetPPPInfo /\ full THEN {"fritzbox_ppp"} ELSE {})
      \cup (IF "fritz.box" \in Range(pl.GetMeshInfo) /\ full THEN {"fritzbox_mesh"} ELSE {})
      \cup (IF "fritz.box" \in Range(pl.GetMeshInfo) /\ full /\ pl.GetMeshClients
            THEN {"fritzbox_mesh_client"} ELSE {})

EmittedMeasurements == { lastGather.done.emitted[m].name : m \in 1..Len(lastGather.done.emitted) }

C23_OnlyConnectedLinksTraversed ==
  \A r \in MSResults \cup CLResults : \A m \in 1..Len(r) : \A i \in 1..Len(r[m]) :
    LinkAt(r[m][i].nodeLink).State = "CONNECTED"

(* Both resolvers have returned, getMasterSlavePaths with a path one of     *)
(* whose nodes also stores a link, to a device of the snapshot, that is not *)
(* connected.                                                               *)
C23_Witness ==
  /\ CLReturned # {}
  /\ \E c \in MSReturned : \E m \in 1..Len(calls[c].paths) :
       \E i \in 1..Len(calls[c].paths[m]) :
         \E l \in LinkPointers(calls[c].paths[m][i].node) :
           ~IsUp(l) /\ {LinkAt(l).Node1Uid, LinkAt(l).Node2Uid} \subseteq UidsPresent

(* C24: every step strictly between the seed step and the returned step of *)
(* a chain returned by getMasterSlavePaths has a device that is a mesh      *)
(* member.                                                                  *)
C24_RelaysAreMeshMembers ==
  \A r \in MSResults : \A m \in 1..Len(r) : \A i \in 2..(Len(r[m]) - 1) :
    NodeAt(r[m][i].node).IsMeshed

(* C25: in every path returned by getClientPaths the parent step has a      *)
(* device that is a mesh member and is a different device from the client.  *)
C25_AttachmentPointIsMeshMember ==
  \A r \in CLResults : \A m \in 1..Len(r) :
    Len(r[m]) >= 2 =>
      /\ NodeAt(r[m][2].node).IsMeshed
      /\ NodeAt(r[m][2].node).Uid # NodeAt(r[m][1].node).Uid

NamedRepeater(n) == isSlave(NodeAt(n)) /\ hasValidDeviceName(NodeAt(n))

(* C26: every path returned by getMasterSlavePaths has a device that is a   *)
(* slave with a valid name; its link is connected and has side 1 or side 2  *)
(* interface uid equal to the uid of its parent step's interface; no other  *)
(* step of its chain has a device that is a validly named slave.            *)
C26_ReturnedStepIsFirstNamedRepeater ==
  \A r \in MSResults : \A m \in 1..Len(r) :
    /\ Len(r[m]) >= 2
    /\ NamedRepeater(r[m][1].node)
    /\ LinkAt(r[m][1].nodeLink).State = "CONNECTED"
    /\ InterfaceAt(r[m][2].nodeInterface).Uid \in
         {LinkAt(r[m][1].nodeLink).NodeInterface1Uid, LinkAt(r[m][1].nodeLink).NodeInterface2Uid}
    /\ \A i \in 2..Len(r[m]) : ~NamedRepeater(r[m][i].node)

(* A returned chain of three steps or more, from a snapshot with an unnamed *)
(* slave, and with a named slave that has a connected link that does not    *)
(* touch the interface it was reached from.                                 *)
C26_Witness ==
  \E c \in MSReturned : \E m \in 1..Len(calls[c].paths) :
    LET chain == calls[c].paths[m] IN
    /\ Len(chain) >= 3
    /\ \E n \in 1..Len(Nodes) : isSlave(Nodes[n]) /\ ~hasValidDeviceName(Nodes[n])
    /\ \E l \in LinkPointers(chain[1].node) :
         /\ IsUp(l)
         /\ InterfaceAt(chain[2].nodeInterface).Uid \notin
              {LinkAt(l).NodeInterface1Uid, LinkAt(l).NodeInterface2Uid}

(* ---------------------------------------------------------------------- *)
(* The query counter and the device info cache over a sequence of Gather    *)
(* calls.                                                                   *)
(* ---------------------------------------------------------------------- *)
(* The entries of plugin.Devices a run gets to: those before the first      *)
(* entry that does not have three elements.                                 *)
EntriesTried ==
  { i \in 1..Len(plugin.Devices) : \A j \in 1..i : Len(plugin.Devices[j]) = 3 }

(* The hosts run k had the description of. *)
HostsProcessed(k) ==
  { UrlTable.hostname[plugin.Devices[i][1]] :
      i \in { j \in EntriesTried : plugin.Devices[j][1] \notin Range(gathers[k].errors) } }

(* Run k entered with the counter at zero and made every configured query   *)
(* on every device it had the description of.                               *)
FullQuery(k) ==
  /\ gathers[k].queryCounter = 0
  /\ Range(gathers[k].queried) = UNION { OwedQueries(h, TRUE) : h \in HostsProcessed(k) }

(* The query counter after run k. *)
CounterAfter(k) == IF k = Len(gathers) THEN plugin.queryCounter ELSE gathers[k + 1].queryCounter

(* C27: after any sequence of Gather calls 0 <= queryCounter and            *)
(* queryCounter < max(1, FullQueryCycle); the first Gather of a plugin      *)
(* instance is a full query; with FullQueryCycle <= 1 (zero and negative    *)
(* values included) every Gather is a full query, the modulo being taken    *)
(* of 1.                                                                    *)
C27_QueryCounterInRange ==
  /\ 0 <= plugin.queryCounter
  /\ plugin.queryCounter < (IF plugin.FullQueryCycle > 1 THEN plugin.FullQueryCycle ELSE 1)
  /\ gathers # <<>> => FullQuery(1)
  /\ plugin.FullQueryCycle <= 1 => \A k \in 1..Len(gathers) : FullQuery(k)

C27_Witness ==
  /\ plugin.FullQueryCycle = 0
  /\ Len(gathers) >= 3
  /\ \A k \in 1..Len(gathers) :
       /\ ~gathers[k].err
       /\ \E q \in Range(gathers[k].queried) : q.method = "processDeviceInfoService"

(* C28: a Gather that returns an error (empty device list, or an entry      *)
(* without exactly three elements) leaves the query counter unchanged, and  *)
(* has made the queries of the devices listed before the malformed entry.   *)
C28_FailedRunKeepsCounter ==
  \A k \in 1..Len(gathers) :
    /\ gathers[k].err <=> (plugin.Devices = <<>> \/ EntriesTried # 1..Len(plugin.Devices))
    /\ gathers[k].err =>
         /\ CounterAfter(k) = gathers[k].queryCounter
         /\ Range(gathers[k].queried) =
              UNION { OwedQueries(h, gathers[k].queryCounter = 0) : h \in HostsProcessed(k) }

C28_Witness ==
  /\ Len(gathers) >= 2
  /\ Len(plugin.Devices) = 2
  /\ EntriesTried = {1}
  /\ plugin.FullQueryCycle = 6
  /\ \A k \in 1..Len(gathers) : gathers[k].err /\ gathers[k].queryCounter = 0
  /\ \E q \in Range(gathers[Len(gathers)].queried) : q.method = "processDeviceInfoService"

(* The runs in which the description of the raw base url was fetched. *)
FetchedIn(raw) == { k \in 1..Len(gathers) : raw \in Range(gathers[k].fetched) }

(* The first entry of plugin.Devices with the raw base url. *)
FirstEntryOf(raw) ==
  plugin.Devices[CHOOSE i \in EntriesTried :
                   /\ plugin.Devices[i][1] = raw
                   /\ \A j \in 1..(i - 1) : plugin.Devices[j][1] # raw]

(* C29: over any sequence of Gather calls the description of a raw base url *)
(* is fetched at most once; from then on the device info is cached under    *)
(* the raw base url, with the login, the password and the mesh flag of that *)
(* time, and no later run fetches it or reports an error for it; a run      *)
(* whose fetch fails caches nothing, and each later run tries again.        *)
C29_DescriptionFetchedOnce ==
  \A i \in EntriesTried :
    LET raw == plugin.Devices[i][1] IN
    /\ Cardinality(FetchedIn(raw)) <= 1
    /\ \A k \in FetchedIn(raw) :
         Cardinality({ m \in 1..Len(gathers[k].fetched) : gathers[k].fetched[m] = raw }) = 1
    /\ raw \in DOMAIN plugin.deviceInfos <=> FetchedIn(raw) # {}
    /\ raw \in DOMAIN plugin.deviceInfos =>
         /\ plugin.deviceInfos[raw].Login = FirstEntryOf(raw)[2]
         /\ plugin.deviceInfos[raw].Password = FirstEntryOf(raw)[3]
         /\ plugin.deviceInfos[raw].GetMeshInfo =
              (UrlTable.hostname[raw] \in Range(plugin.GetMeshInfo))
         /\ plugin.deviceInfos[raw].ServiceInfo = Tr64Desc(UrlTable.hostname[raw])
    /\ \A k \in 1..Len(gathers) :
         (raw \in Range(gathers[k].errors)) <=> (\A j \in 1..k : j \notin FetchedIn(raw))

(* The description was not to be had in the first two runs, was fetched in  *)
(* the third and has been reused by two more; the base url is listed twice, *)
(* with two logins.                                                         *)
C29_Witness ==
  /\ Len(gathers) >= 5
  /\ Len(plugin.Devices) = 2
  /\ plugin.Devices[1][1] = plugin.Devices[2][1]
  /\ plugin.Devices[1][2] # plugin.Devices[2][2]
  /\ FetchedIn(plugin.Devices[1][1]) = {3}
  /\ \A k \in 1..Len(gathers) : gathers[k].queried # <<>> <=> k >= 3

(* ---------------------------------------------------------------------- *)
(* The digest authentication cache of a device.                             *)
(* ---------------------------------------------------------------------- *)
(* The cache of the device info of raw when the latest run began. *)
CacheAtEntry(raw) ==
  IF raw \in DOMAIN lastGather.before.deviceInfos
  THEN lastGather.before.deviceInfos[raw].cachedAuthentication
  ELSE <<NoServiceType, NoAuthentication>>

(* The invocation of the latest run before invocation n on the same device  *)
(* info, 0 if there is none.                                                *)
PreviousOn(n) ==
  LET earlier == { j \in 1..(n - 1) :
                     lastGather.done.invocations[j].raw = lastGather.done.invocations[n].raw }
  IN  IF earlier = {} THEN 0 ELSE CHOOSE j \in earlier : \A i \in earlier : i <= j

(* The first POST of the invocation was answered 401. *)
Unauthorized(inv) ==
  /\ inv.posts # <<>>
  /\ ~inv.posts[1].response.err
  /\ inv.posts[1].response.StatusCode = 401

(* The cache is written by invocations only: each finds what the one before *)
(* it on the same device left, and the device info keeps what the last one  *)
(* left.                                                                    *)
CacheWrittenByInvocationsOnly ==
  \A n \in 1..Len(lastGather.done.invocations) :
    LET inv == lastGather.done.invocations[n] IN
    /\ inv.before = (IF PreviousOn(n) = 0 THEN CacheAtEntry(inv.raw)
                     ELSE lastGather.done.invocations[PreviousOn(n)].after)
    /\ (\A j \in (n + 1)..Len(lastGather.done.invocations) :
          lastGather.done.invocations[j].raw # inv.raw)
         => plugin.deviceInfos[inv.raw].cachedAuthentication = inv.after

(* C30: the cache of a device is one (service type, authorization) pair; an *)
(* invocation changes it only when its first POST was answered 401 with     *)
(* exactly one WWW-Authenticate header, to the invoked service type and the *)
(* authorization of the second POST; the first POST carries the cached      *)
(* authorization when the cached service type is the invoked one and no     *)
(* Authorization header otherwise; a 401 with no or with several            *)
(* WWW-Authenticate headers leaves the cache unchanged, and the invocation  *)
(* returns no error after that one POST.                                    *)
C30_DigestCacheDiscipline ==
  /\ CacheWrittenByInvocationsOnly
  /\ \A inv \in Invocations :
       /\ Len(inv.after) = 2
       /\ inv.after # inv.before =>
            /\ Unauthorized(inv)
            /\ Len(inv.posts[1].response.WwwAuthenticate) = 1
            /\ Len(inv.posts) = 2
            /\ inv.after = <<inv.service, inv.posts[2].request.Authorization>>
       /\ inv.posts # <<>> =>
            inv.posts[1].request.Authorization =
              (IF inv.before[1] = inv.service THEN inv.before[2] ELSE NoAuthentication)
       /\ (Unauthorized(inv) /\ Len(inv.posts[1].response.WwwAuthenticate) # 1) =>
            /\ inv.after = inv.before
            /\ ~inv.err
            /\ Len(inv.posts) = 1

(* A run against a device that sends two WWW-Authenticate headers, after a  *)
(* run that filled the cache: one invocation sends the cached authorization *)
(* for its service type, another, of another service type, sends none, is   *)
(* answered 401 and returns after that POST with the cache as it was.       *)
C30_Witness ==
  /\ Gathered
  /\ lastGather.net.policy = "twice401"
  /\ \E inv \in Invocations :
       /\ inv.before[1] = inv.service
       /\ inv.posts[1].request.Authorization = inv.before[2]
       /\ inv.before[2] # NoAuthentication
  /\ \E inv \in Invocations :
       /\ inv.before[1] \notin {inv.service, NoServiceType}
       /\ inv.posts[1].request.Authorization = NoAuthentication
       /\ Unauthorized(inv)
       /\ Len(inv.posts[1].response.WwwAuthenticate) = 2
       /\ Len(inv.posts) = 1 /\ ~inv.err /\ inv.after = inv.before

====
